---- MODULE Spec2Model ----
(***************************************************************************)
(* Permutive real-time-data provider: configuration resolver, cohort       *)
(* collection, per-bidder routing, ORTB2 fragment writer and the           *)
(* getBidRequestData orchestration with its deferred "ready" pass.         *)
(*                                                                         *)
(* JSON objects are functions with a finite domain of string keys; the     *)
(* empty object is the empty function.  Arrays are sequences.  A string    *)
(* that the code splits, trims and joins (user.keywords) is a sequence of  *)
(* atoms: "," and " " are atoms of their own, every other atom is a run    *)
(* of characters holding neither.                                          *)
(***************************************************************************)
EXTENDS Integers, Sequences, FiniteSets, TLC

\* ------------------------------------------------------------------------
\* Literals of the module
\* ------------------------------------------------------------------------
PERMUTIVE_SUBMODULE_CONFIG_KEY == "permutive-prebid-rtd"
PERMUTIVE_STANDARD_KEYWORD == "p_standard"
PERMUTIVE_CUSTOM_COHORTS_KEYWORD == "permutive"
PERMUTIVE_STANDARD_AUD_KEYWORD == "p_standard_aud"
ProviderName == "permutive.com"
unknownIabSegmentId == "_unknown_"
legacyCcBidders == <<"ix", "rubicon", "appnexus", "gam">>
DefaultMaxSegs == 500
StandardCohortThreshold == 1000000

\* ------------------------------------------------------------------------
\* Sequences as JavaScript arrays
\* ------------------------------------------------------------------------
Min(a, b) == IF a < b THEN a ELSE b

Range(s) == {s[i] : i \in 1..Len(s)}

\* xs.indexOf(x) > -1
Includes(xs, x) == \E i \in 1..Len(xs) : xs[i] = x

\* xs.slice(0, n) for n >= 0
slice(xs, n) == SubSeq(xs, 1, Min(n, Len(xs)))

\* [...new Set(xs)]: first occurrences, in encounter order
RECURSIVE SetOrder(_, _)
SetOrder(xs, seen) ==
  IF xs = <<>> THEN <<>>
  ELSE IF Includes(seen, Head(xs)) THEN SetOrder(Tail(xs), seen)
  ELSE <<Head(xs)>> \o SetOrder(Tail(xs), seen \o <<Head(xs)>>)

Dedup(xs) == SetOrder(xs, <<>>)

NoDuplicates(xs) == \A i, j \in 1..Len(xs) : xs[i] = xs[j] => i = j

\* xs.flatMap over a sequence of sequences
RECURSIVE Flatten(_)
Flatten(xss) == IF xss = <<>> THEN <<>> ELSE Head(xss) \o Flatten(Tail(xss))

\* ------------------------------------------------------------------------
\* JSON objects and the path utilities (utils.js)
\* ------------------------------------------------------------------------
EmptyObj == <<>>

Put(obj, k, v) == [x \in (DOMAIN obj) \cup {k} |-> IF x = k THEN v ELSE obj[x]]

\* deepAccess(obj, path) || dflt, for a path through plain objects
RECURSIVE deepAccessOr(_, _, _)
deepAccessOr(obj, path, dflt) ==
  IF path = <<>> THEN obj
  ELSE IF Head(path) \in DOMAIN obj
       THEN deepAccessOr(obj[Head(path)], Tail(path), dflt)
       ELSE dflt

HasPath(obj, path) ==
  \A i \in 1..Len(path) :
     path[i] \in DOMAIN deepAccessOr(obj, SubSeq(path, 1, i - 1), EmptyObj)

\* deepSetValue(obj, path, v): sets the leaf, creates the missing
\* intermediate objects, keeps every sibling key
RECURSIVE deepSetValue(_, _, _)
deepSetValue(obj, path, v) ==
  IF Len(path) = 1 THEN Put(obj, Head(path), v)
  ELSE Put(obj, Head(path),
           deepSetValue(IF Head(path) \in DOMAIN obj THEN obj[Head(path)] ELSE EmptyObj,
                        Tail(path), v))

\* The keys of the module configuration whose values are plain objects;
\* every other key holds a scalar, an array or a function.
PlainObjectKeys == {"params", "overwrites"}

\* mergeDeep(target, source): key-wise; a plain object is merged
\* recursively, anything else of the source replaces the target's value
RECURSIVE mergeDeep(_, _)
mergeDeep(target, source) ==
  [k \in (DOMAIN target) \cup (DOMAIN source) |->
     IF k \notin DOMAIN source THEN target[k]
     ELSE IF k \in PlainObjectKeys
          THEN mergeDeep(IF k \in DOMAIN target THEN target[k] ELSE EmptyObj, source[k])
          ELSE source[k]]

\* ------------------------------------------------------------------------
\* Strings that are split, trimmed and joined
\* ------------------------------------------------------------------------
Comma == ","
Space == " "

\* The characters of an identifier, as atoms.
Text(id) ==
  IF id = "a,b" THEN <<"a", Comma, "b">>
  ELSE IF id = "c " THEN <<"c", Space>>
  ELSE <<id>>

\* `${keyword}=${id}`
KeywordToken(keyword, id) == <<keyword, "=">> \o Text(id)

\* str.split(',')
RECURSIVE split(_)
split(str) ==
  IF ~Includes(str, Comma) THEN <<str>>
  ELSE LET i == CHOOSE n \in 1..Len(str) :
                  str[n] = Comma /\ \A m \in 1..(n - 1) : str[m] # Comma
       IN <<SubSeq(str, 1, i - 1)>> \o split(SubSeq(str, i + 1, Len(str)))

\* str.trim()
RECURSIVE trimStart(_)
trimStart(str) ==
  IF str # <<>> /\ Head(str) = Space THEN trimStart(Tail(str)) ELSE str

RECURSIVE trimEnd(_)
trimEnd(str) ==
  IF str # <<>> /\ str[Len(str)] = Space
  THEN trimEnd(SubSeq(str, 1, Len(str) - 1)) ELSE str

trim(str) == trimEnd(trimStart(str))

\* tokens.join(',')
RECURSIVE join(_)
join(tokens) ==
  IF tokens = <<>> THEN <<>>
  ELSE IF Len(tokens) = 1 THEN Head(tokens)
  ELSE Head(tokens) \o <<Comma>> \o join(Tail(tokens))

\* tokens.map(kv => kv.trim())
trimAll(tokens) == [i \in 1..Len(tokens) |-> trim(tokens[i])]

\* tokens.filter(Boolean): the empty string is the only falsy token
NonEmptyTokens(tokens) == SelectSeq(tokens, LAMBDA t : t # <<>>)


\* ------------------------------------------------------------------------
\* Local storage and the values read from it
\* ------------------------------------------------------------------------
\* A stored value: absent, text that is not JSON, or a parsed JSON value.
Missing == [t |-> "missing"]
Malformed == [t |-> "malformed"]
Scalar == [t |-> "scalar"]
Arr(items) == [t |-> "array", v |-> items]
Obj(o) == [t |-> "object", fields |-> o]

StoreKeys ==
  {"_psegs", "_pcrprs", "_pprebid", "_papns", "_prubicons", "_pindexs",
   "_pdfps", "_pssps", "_ppsts", PERMUTIVE_SUBMODULE_CONFIG_KEY}

\* Number(item) of an array item, for the items that are numeric
IsNumeric(item) == item \in {"1", "999999", "1e6", "1000001", "1000002"}

NumberOf(item) ==
  CASE item = "1" -> 1
    [] item = "999999" -> 999999
    [] item = "1e6" -> 1000000
    [] item = "1000001" -> 1000001
    [] item = "1000002" -> 1000002

\* String(n) of a number
NumberToString(n) ==
  CASE n = 1 -> "1"
    [] n = 999999 -> "999999"
    [] n = 1000000 -> "1000000"
    [] n = 1000001 -> "1000001"
    [] n = 1000002 -> "1000002"

\* JSON.parse(storage.getDataFromLocalStorage(key)) || defaultValue, the
\* default also when parsing throws
readSegments(st, key, defaultValue) ==
  IF st[key].t \in {"missing", "malformed"} THEN defaultValue ELSE st[key]

\* makeSafe(() => value.map(String)) || []: a value without map throws
MapString(value) == IF value.t = "array" THEN value.v ELSE <<>>

\* makeSafe(() => obj.field.map(String)) || []
FieldMapString(value, field) ==
  IF value.t = "object" /\ field \in DOMAIN value.fields
  THEN MapString(value.fields[field]) ELSE <<>>

\* readSegments('_psegs', []).map(Number).filter(seg => seg >= 1000000).map(String)
standardCohorts(st) ==
  LET raw == MapString(readSegments(st, "_psegs", Arr(<<>>)))
      kept == SelectSeq(raw, LAMBDA i : IsNumeric(i) /\ NumberOf(i) >= StandardCohortThreshold)
  IN [i \in 1..Len(kept) |-> NumberToString(NumberOf(kept[i]))]

dcrCohorts(st) == MapString(readSegments(st, "_pcrprs", Arr(<<>>)))

\* The standard cohorts ahead of the DCR cohorts
acOf_StandardFirst(st, maxSegs) == slice(standardCohorts(st) \o dcrCohorts(st), maxSegs)

acOf(st, maxSegs) == slice(dcrCohorts(st) \o standardCohorts(st), maxSegs)

\* The cap applied to the concatenation, duplicates removed afterwards
customCohortsOf_CapFirst(st, maxSegs) ==
  Dedup(slice(MapString(readSegments(st, "_pprebid", Arr(<<>>)))
              \o MapString(readSegments(st, "_papns", Arr(<<>>)))
              \o MapString(readSegments(st, "_prubicons", Arr(<<>>)))
              \o MapString(readSegments(st, "_pindexs", Arr(<<>>)))
              \o MapString(readSegments(st, "_pdfps", Arr(<<>>))),
              maxSegs))

customCohortsOf(st, maxSegs) ==
  slice(Dedup(MapString(readSegments(st, "_pprebid", Arr(<<>>)))
              \o MapString(readSegments(st, "_papns", Arr(<<>>)))
              \o MapString(readSegments(st, "_prubicons", Arr(<<>>)))
              \o MapString(readSegments(st, "_pindexs", Arr(<<>>)))
              \o MapString(readSegments(st, "_pdfps", Arr(<<>>)))),
        maxSegs)

sspOf(st, maxSegs) ==
  LET pssps == readSegments(st, "_pssps",
                            Obj([cohorts |-> Arr(<<>>), ssps |-> Arr(<<>>)]))
  IN [cohorts |-> slice(FieldMapString(pssps, "cohorts"), maxSegs),
      ssps |-> FieldMapString(pssps, "ssps")]

\* The property name of the i-th element of an array
IndexKey(i) == IF i = 1 THEN "0" ELSE "1"

\* Object.entries(_ppsts): for every key the list, cut to maxSegs, or [];
\* the entries of an array of scalars are its indices, none with a map
topicsOf(st, maxSegs) ==
  LET ppsts == readSegments(st, "_ppsts", Obj(EmptyObj))
  IN IF ppsts.t = "object"
     THEN [k \in DOMAIN ppsts.fields |-> slice(MapString(ppsts.fields[k]), maxSegs)]
     ELSE IF ppsts.t = "array"
     THEN [k \in {IndexKey(i) : i \in 1..Len(ppsts.v)} |-> <<>>]
     ELSE EmptyObj

getSegments(st, maxSegs) ==
  [ac |-> acOf(st, maxSegs),
   customCohorts |-> customCohortsOf(st, maxSegs),
   ssp |-> sspOf(st, maxSegs),
   topics |-> topicsOf(st, maxSegs)]

\* ------------------------------------------------------------------------
\* Taxonomy transformations
\* ------------------------------------------------------------------------
\* iabIds[permutiveSegmentId] || unknownIabSegmentId
iabSegmentId(permutiveSegmentId, iabIds) ==
  IF permutiveSegmentId \in DOMAIN iabIds /\ iabIds[permutiveSegmentId] # ""
  THEN iabIds[permutiveSegmentId] ELSE unknownIabSegmentId

\* The ids without a mapping kept under the sentinel
iab_KeepsUnknown(userData, config) ==
  [name |-> userData.name,
   ext |-> [segtax |-> config.segtax],
   segment |->
     [i \in 1..Len(userData.segment) |->
        [id |-> iabSegmentId(userData.segment[i].id, config.iabIds)]]]

iab(userData, config) ==
  [name |-> userData.name,
   ext |-> [segtax |-> config.segtax],
   segment |->
     SelectSeq([i \in 1..Len(userData.segment) |->
                  [id |-> iabSegmentId(userData.segment[i].id, config.iabIds)]],
               LAMBDA segment : segment.id # unknownIabSegmentId)]

\* The own properties of ortb2UserDataTransformations
TransformationIds == {"iab"}

\* ------------------------------------------------------------------------
\* The ORTB2 fragment writer
\* ------------------------------------------------------------------------
\* Taxonomy versions in the order Object.entries yields them, with Number(k)
TaxonomyOrder == <<"0", "1", "600", "601">>

SegtaxOf(k) ==
  CASE k = "0" -> 0
    [] k = "1" -> 1
    [] k = "600" -> 600
    [] k = "601" -> 601

Segment(ids) == [i \in 1..Len(ids) |-> [id |-> ids[i]]]

\* The union left uncut
mergedSignalsOf_Uncut(acSignals, sspSignals, maxSegs) ==
  Dedup(acSignals \o sspSignals)

\* The union with the SSP cohorts first
mergedSignalsOf_SspFirst(acSignals, sspSignals, maxSegs) ==
  slice(Dedup(sspSignals \o acSignals), maxSegs)

\* The two lists concatenated and cut, repeated ids kept
mergedSignalsOf_Repeats(acSignals, sspSignals, maxSegs) ==
  slice(acSignals \o sspSignals, maxSegs)

mergedSignalsOf(acSignals, sspSignals, maxSegs) ==
  slice(Dedup(acSignals \o sspSignals), maxSegs)

permutiveUserDataOf(mergedSignals) ==
  [name |-> ProviderName, segment |-> Segment(mergedSignals)]

transformedUserDataOf(permutiveUserData, transformationConfigs) ==
  LET known == SelectSeq(transformationConfigs, LAMBDA c : c.id \in TransformationIds)
  IN [i \in 1..Len(known) |-> iab(permutiveUserData, known[i].config)]

ccUserDataOf(ccSignals) ==
  [name |-> PERMUTIVE_CUSTOM_COHORTS_KEYWORD, segment |-> Segment(ccSignals)]

topicsUserDataOf(topics) ==
  LET keys == SelectSeq(TaxonomyOrder, LAMBDA k : k \in DOMAIN topics)
  IN [i \in 1..Len(keys) |-> [name |-> ProviderName,
                              ext |-> [segtax |-> SegtaxOf(keys[i])],
                              segment |-> Segment(topics[keys[i]])]]

\* Topics gated by role: written only for a bidder that receives standard
\* cohorts
updatedUserDataOf_TopicsGated(currentUserData, mergedSignals, ccSignals, topics, transformationConfigs) ==
  SelectSeq(currentUserData,
            LAMBDA el : el.name # ProviderName /\ el.name # PERMUTIVE_CUSTOM_COHORTS_KEYWORD)
  \o <<permutiveUserDataOf(mergedSignals)>>
  \o transformedUserDataOf(permutiveUserDataOf(mergedSignals), transformationConfigs)
  \o <<ccUserDataOf(ccSignals)>>
  \o (IF mergedSignals = <<>> THEN <<>> ELSE topicsUserDataOf(topics))

\* The entries of an earlier write left in place
updatedUserDataOf_NoStrip(currentUserData, mergedSignals, ccSignals, topics, transformationConfigs) ==
  currentUserData
  \o <<permutiveUserDataOf(mergedSignals)>>
  \o transformedUserDataOf(permutiveUserDataOf(mergedSignals), transformationConfigs)
  \o <<ccUserDataOf(ccSignals)>>
  \o topicsUserDataOf(topics)

\* The entries of other providers dropped
updatedUserDataOf_DropsOthers(currentUserData, mergedSignals, ccSignals, topics, transformationConfigs) ==
  <<permutiveUserDataOf(mergedSignals)>>
  \o transformedUserDataOf(permutiveUserDataOf(mergedSignals), transformationConfigs)
  \o <<ccUserDataOf(ccSignals)>>
  \o topicsUserDataOf(topics)

\* The custom cohort entry appended ahead of the merged entry
updatedUserDataOf_CustomFirst(currentUserData, mergedSignals, ccSignals, topics, transformationConfigs) ==
  SelectSeq(currentUserData,
            LAMBDA el : el.name # ProviderName /\ el.name # PERMUTIVE_CUSTOM_COHORTS_KEYWORD)
  \o <<ccUserDataOf(ccSignals)>>
  \o <<permutiveUserDataOf(mergedSignals)>>
  \o transformedUserDataOf(permutiveUserDataOf(mergedSignals), transformationConfigs)
  \o topicsUserDataOf(topics)

updatedUserDataOf(currentUserData, mergedSignals, ccSignals, topics, transformationConfigs) ==
  SelectSeq(currentUserData,
            LAMBDA el : el.name # ProviderName /\ el.name # PERMUTIVE_CUSTOM_COHORTS_KEYWORD)
  \o <<permutiveUserDataOf(mergedSignals)>>
  \o transformedUserDataOf(permutiveUserDataOf(mergedSignals), transformationConfigs)
  \o <<ccUserDataOf(ccSignals)>>
  \o topicsUserDataOf(topics)

transformedKeywordGroups(mergedSignals, sspSignals, ccSignals) ==
  [i \in 1..Len(mergedSignals) |-> KeywordToken(PERMUTIVE_STANDARD_KEYWORD, mergedSignals[i])]
  \o [i \in 1..Len(sspSignals) |-> KeywordToken(PERMUTIVE_STANDARD_AUD_KEYWORD, sspSignals[i])]
  \o [i \in 1..Len(ccSignals) |-> KeywordToken(PERMUTIVE_CUSTOM_COHORTS_KEYWORD, ccSignals[i])]

\* The tokens of an earlier pass stripped before the new ones are added
keywordsOf_StripsOwn(currentKeywords, mergedSignals, sspSignals, ccSignals) ==
  join(NonEmptyTokens(Dedup(
         SelectSeq(trimAll(split(currentKeywords)),
                   LAMBDA t : ~(Len(t) >= 2 /\ t[2] = "="
                                /\ t[1] \in {PERMUTIVE_STANDARD_KEYWORD,
                                             PERMUTIVE_STANDARD_AUD_KEYWORD,
                                             PERMUTIVE_CUSTOM_COHORTS_KEYWORD}))
         \o transformedKeywordGroups(mergedSignals, sspSignals, ccSignals))))

keywordsOf(currentKeywords, mergedSignals, sspSignals, ccSignals) ==
  join(NonEmptyTokens(Dedup(
         trimAll(split(currentKeywords))
         \o transformedKeywordGroups(mergedSignals, sspSignals, ccSignals))))

UserData == <<"ortb2", "user", "data">>
UserKeywords == <<"ortb2", "user", "keywords">>
UserExtStandard == <<"ortb2", "user", "ext", "data", PERMUTIVE_STANDARD_KEYWORD>>
UserExtCustom == <<"ortb2", "user", "ext", "data", PERMUTIVE_CUSTOM_COHORTS_KEYWORD>>
SiteExtStandard == <<"ortb2", "site", "ext", "permutive", PERMUTIVE_STANDARD_KEYWORD>>

\* A user.data that is not an array (a number, an object): the value a
\* fragment holds in the place of the list, on which .filter is not a
\* function
NotAnArray == <<[name |-> "#not-an-array", segment |-> <<>>]>>

\* A user.keywords that is not a string (a number): the value a fragment
\* holds in the place of the text, on which .split is not a function
NotAString == <<"#not-a-string">>

\* updateOrtbConfig left by an exception: partial is the copy it was
\* working on, as far as it was written
Thrown(partial) == [t |-> "throws", partial |-> partial]

HasThrown(result) == "t" \in DOMAIN result

\* The three ext paths written whatever the lists hold: an empty list
\* clears the path
updateOrtbConfig_AlwaysWrites(bidder, currConfig, acSignals, sspSignals, ccSignals, topics, transformationConfigs, maxSegs) ==
  LET mergedSignals == mergedSignalsOf(acSignals, sspSignals, maxSegs)
      ortbConfig == currConfig
      currentUserData == deepAccessOr(ortbConfig, UserData, <<>>)
      c1 == deepSetValue(ortbConfig, UserData,
              updatedUserDataOf(currentUserData,
                                mergedSignals, ccSignals, topics, transformationConfigs))
      currentKeywords == deepAccessOr(c1, UserKeywords, <<>>)
      c2 == deepSetValue(c1, UserKeywords,
              keywordsOf(currentKeywords, mergedSignals, sspSignals, ccSignals))
      c3 == deepSetValue(c2, UserExtStandard, mergedSignals)
      c4 == deepSetValue(c3, UserExtCustom, ccSignals)
      c5 == deepSetValue(c4, SiteExtStandard, mergedSignals)
  IN IF currentUserData = NotAnArray THEN Thrown(ortbConfig)
     ELSE IF currentKeywords = NotAString THEN Thrown(c1)
     ELSE c5

updateOrtbConfig(bidder, currConfig, acSignals, sspSignals, ccSignals, topics, transformationConfigs, maxSegs) ==
  LET mergedSignals == mergedSignalsOf(acSignals, sspSignals, maxSegs)
      ortbConfig == currConfig
      currentUserData == deepAccessOr(ortbConfig, UserData, <<>>)
      c1 == deepSetValue(ortbConfig, UserData,
              updatedUserDataOf(currentUserData,
                                mergedSignals, ccSignals, topics, transformationConfigs))
      currentKeywords == deepAccessOr(c1, UserKeywords, <<>>)
      c2 == deepSetValue(c1, UserKeywords,
              keywordsOf(currentKeywords, mergedSignals, sspSignals, ccSignals))
      c3 == IF Len(mergedSignals) > 0
            THEN deepSetValue(c2, UserExtStandard, mergedSignals) ELSE c2
      c4 == IF Len(ccSignals) > 0
            THEN deepSetValue(c3, UserExtCustom, ccSignals) ELSE c3
      c5 == IF Len(mergedSignals) > 0
            THEN deepSetValue(c4, SiteExtStandard, mergedSignals) ELSE c4
  IN IF currentUserData = NotAnArray THEN Thrown(ortbConfig)
     ELSE IF currentKeywords = NotAString THEN Thrown(c1)
     ELSE c5

\* The candidate bidders in the iteration order of the Set
candidateBidders(acBidders, sspBidders, ccBidders) ==
  Dedup(acBidders \o sspBidders \o ccBidders \o legacyCcBidders)

\* The fragment itself written, not a copy: what updateOrtbConfig had
\* written when it threw stays in the map
assignEntry_InPlace(bidderOrtb2, bidder, nextConfig) ==
  IF HasThrown(nextConfig)
  THEN [bidderOrtb2 |-> Put(bidderOrtb2, bidder, nextConfig.partial.ortb2), thrown |-> TRUE]
  ELSE [bidderOrtb2 |-> Put(bidderOrtb2, bidder, nextConfig.ortb2), thrown |-> FALSE]

\* bidderOrtb2[bidder] = nextConfig.ortb2, reached only when
\* updateOrtbConfig has returned: the map after the iteration, and whether
\* an exception left it
assignEntry(bidderOrtb2, bidder, nextConfig) ==
  IF HasThrown(nextConfig)
  THEN [bidderOrtb2 |-> bidderOrtb2, thrown |-> TRUE]
  ELSE [bidderOrtb2 |-> Put(bidderOrtb2, bidder, nextConfig.ortb2), thrown |-> FALSE]

\* The iteration entitling to custom cohorts the bidders of
\* params.ccBidders only, not the legacy ones
writeBidder_NoLegacyCc(bidderOrtb2, moduleConfig, segmentData, bidder) ==
  LET acBidders == moduleConfig.params.acBidders
      ccBidders == deepAccessOr(moduleConfig, <<"params", "ccBidders">>, <<>>)
      isAcBidder == Includes(acBidders, bidder)
      isSspBidder == Includes(segmentData.ssp.ssps, bidder)
      isCcBidder == Includes(ccBidders, bidder)
      currConfig == [ortb2 |-> IF bidder \in DOMAIN bidderOrtb2
                               THEN bidderOrtb2[bidder] ELSE EmptyObj]
      nextConfig == updateOrtbConfig(
                      bidder, currConfig,
                      IF isAcBidder THEN segmentData.ac ELSE <<>>,
                      IF isSspBidder THEN segmentData.ssp.cohorts ELSE <<>>,
                      IF isCcBidder THEN segmentData.customCohorts ELSE <<>>,
                      segmentData.topics,
                      deepAccessOr(moduleConfig, <<"params", "transformations">>, <<>>),
                      moduleConfig.params.maxSegs)
  IN assignEntry(bidderOrtb2, bidder, nextConfig)

\* The iteration handing the SSP cohorts to every candidate
writeBidder_SspForAll(bidderOrtb2, moduleConfig, segmentData, bidder) ==
  LET acBidders == moduleConfig.params.acBidders
      ccBidders == deepAccessOr(moduleConfig, <<"params", "ccBidders">>, <<>>)
      isAcBidder == Includes(acBidders, bidder)
      isCcBidder == Includes(ccBidders, bidder) \/ Includes(legacyCcBidders, bidder)
      currConfig == [ortb2 |-> IF bidder \in DOMAIN bidderOrtb2
                               THEN bidderOrtb2[bidder] ELSE EmptyObj]
      nextConfig == updateOrtbConfig(
                      bidder, currConfig,
                      IF isAcBidder THEN segmentData.ac ELSE <<>>,
                      segmentData.ssp.cohorts,
                      IF isCcBidder THEN segmentData.customCohorts ELSE <<>>,
                      segmentData.topics,
                      deepAccessOr(moduleConfig, <<"params", "transformations">>, <<>>),
                      moduleConfig.params.maxSegs)
  IN assignEntry(bidderOrtb2, bidder, nextConfig)

\* One iteration of bidders.forEach: the map after it, and whether an
\* exception left it.  The entry is assigned once updateOrtbConfig has
\* returned, so an exception leaves the map alone.
writeBidder(bidderOrtb2, moduleConfig, segmentData, bidder) ==
  LET acBidders == moduleConfig.params.acBidders
      ccBidders == deepAccessOr(moduleConfig, <<"params", "ccBidders">>, <<>>)
      isAcBidder == Includes(acBidders, bidder)
      isSspBidder == Includes(segmentData.ssp.ssps, bidder)
      isCcBidder == Includes(ccBidders, bidder) \/ Includes(legacyCcBidders, bidder)
      currConfig == [ortb2 |-> IF bidder \in DOMAIN bidderOrtb2
                               THEN bidderOrtb2[bidder] ELSE EmptyObj]
      nextConfig == updateOrtbConfig(
                      bidder, currConfig,
                      IF isAcBidder THEN segmentData.ac ELSE <<>>,
                      IF isSspBidder THEN segmentData.ssp.cohorts ELSE <<>>,
                      IF isCcBidder THEN segmentData.customCohorts ELSE <<>>,
                      segmentData.topics,
                      deepAccessOr(moduleConfig, <<"params", "transformations">>, <<>>),
                      moduleConfig.params.maxSegs)
  IN assignEntry(bidderOrtb2, bidder, nextConfig)

\* bidders.forEach: an exception in one iteration leaves the loop, the
\* iterations before it done and the ones after it not run
RECURSIVE forEachBidder(_, _, _, _)
RECURSIVE restOfBidders(_, _, _, _)
forEachBidder(bidders, bidderOrtb2, moduleConfig, segmentData) ==
  IF bidders = <<>> THEN [bidderOrtb2 |-> bidderOrtb2, thrown |-> FALSE]
  ELSE restOfBidders(Tail(bidders),
                     writeBidder(bidderOrtb2, moduleConfig, segmentData, Head(bidders)),
                     moduleConfig, segmentData)

\* The loop after an iteration: left when the iteration threw
restOfBidders(bidders, written, moduleConfig, segmentData) ==
  IF written.thrown THEN written
  ELSE forEachBidder(bidders, written.bidderOrtb2, moduleConfig, segmentData)

\* setBidderRtb: the caller's map as the call leaves it, and whether the
\* call was left by an exception
setBidderRtb(bidderOrtb2, moduleConfig, segmentData) ==
  forEachBidder(candidateBidders(moduleConfig.params.acBidders,
                                 segmentData.ssp.ssps,
                                 deepAccessOr(moduleConfig, <<"params", "ccBidders">>, <<>>)),
                bidderOrtb2, moduleConfig, segmentData)


\* ------------------------------------------------------------------------
\* The configuration resolver
\* ------------------------------------------------------------------------
\* window.permutive.addons.prebid.getPermutiveRtdConfig(): throws when the
\* SDK or the addon is absent, else returns a value
Throws == [t |-> "throws"]

liftIntoParams(params) == IF params.t = "object" THEN [params |-> params.fields] ELSE EmptyObj

readPermutiveModuleConfigFromCache(st) == liftIntoParams(st[PERMUTIVE_SUBMODULE_CONFIG_KEY])

\* getParamsFromPermutive() || cachedPermutiveModuleConfig
\* The cached value used whenever the live value gives no params
permutiveModuleConfigOf_CacheWhenEmpty(live, cached) ==
  IF live.t = "object" THEN liftIntoParams(live) ELSE cached

permutiveModuleConfigOf(live, cached) ==
  IF live.t = "throws" THEN cached ELSE liftIntoParams(live)

defaultConfig ==
  [waitForIt |-> FALSE,
   params |-> [maxSegs |-> DefaultMaxSegs,
               acBidders |-> <<>>,
               ccBidders |-> <<>>,
               overwrites |-> EmptyObj]]

\* The layers merged in the wrong order: the platform over the caller
getModuleConfig_PlatformLast(live, cached, customModuleConfig) ==
  mergeDeep(mergeDeep(defaultConfig, customModuleConfig),
            permutiveModuleConfigOf(live, cached))

getModuleConfig(live, cached, customModuleConfig) ==
  mergeDeep(mergeDeep(defaultConfig, permutiveModuleConfigOf(live, cached)),
            customModuleConfig)

\* ------------------------------------------------------------------------
\* One pass and the orchestration
\* ------------------------------------------------------------------------
\* No guard: the exception of fn is passed on
makeSafe_Rethrows(outcome) == outcome

\* makeSafe(fn): an exception of fn is logged, not passed on
makeSafe(outcome) == [outcome EXCEPT !.thrown = FALSE]

\* The functions a publisher may put under params.overwrites: one that
\* leaves the bid alone, one that writes the bid's params, one that throws
Functions == {"fnCustom", "fnPatches", "fnThrows"}

Null == "null"

getCustomBidderFn(moduleConfig, bidder) ==
  LET overwriteFn == deepAccessOr(moduleConfig, <<"params", "overwrites", bidder>>, Null)
  IN IF overwriteFn \in Functions THEN overwriteFn ELSE Null

aliasMap(bidder) == IF bidder = "appnexusAst" THEN "appnexus" ELSE bidder

\* adUnits.forEach(adUnit => adUnit.bids.forEach(...)) over the bids in the
\* order they are visited: the bids as it leaves them, and whether an
\* exception left it
RECURSIVE forEachBid(_, _)
forEachBid(bids, moduleConfig) ==
  IF bids = <<>> THEN [bids |-> <<>>, thrown |-> FALSE]
  ELSE LET bid == Head(bids)
           customFn == getCustomBidderFn(moduleConfig, aliasMap(bid.bidder))
           rest == forEachBid(Tail(bids), moduleConfig)
       IN IF customFn = "fnThrows" THEN [bids |-> bids, thrown |-> TRUE]
          ELSE [bids |-> <<IF customFn = "fnPatches"
                           THEN [bid EXCEPT !.patched = TRUE] ELSE bid>> \o rest.bids,
                thrown |-> rest.thrown]

\* setSegments: the legacy route.  requestAdUnits is reqBidsConfigObj.adUnits
\* (Missing when there is no request object or it has none), globalAdUnits
\* is getGlobal().adUnits
setSegments(requestAdUnits, globalAdUnits, moduleConfig) ==
  IF requestAdUnits.t = "array"
  THEN LET done == forEachBid(requestAdUnits.v, moduleConfig)
       IN [request |-> Arr(done.bids), global |-> globalAdUnits, thrown |-> done.thrown]
  ELSE IF globalAdUnits.t = "array"
  THEN LET done == forEachBid(globalAdUnits.v, moduleConfig)
       IN [request |-> requestAdUnits, global |-> Arr(done.bids), thrown |-> done.thrown]
  ELSE [request |-> requestAdUnits, global |-> globalAdUnits, thrown |-> FALSE]

\* No request object was handed to getBidRequestData
NoRequest == [t |-> "undefined"]

\* A request object without ortb2Fragments, or with ortb2Fragments without
\* bidder
NoFragments == [t |-> "no fragments"]

\* setBidderRtb(reqBidsConfigObj.ortb2Fragments?.bidder, ...): reading
\* ortb2Fragments of no request throws, and so does reading an entry of no
\* map in the first iteration
ortb2Route(bidderOrtb2, moduleConfig, segmentData) ==
  IF bidderOrtb2 = NoRequest \/ bidderOrtb2 = NoFragments
  THEN [bidderOrtb2 |-> bidderOrtb2, thrown |-> TRUE]
  ELSE setBidderRtb(bidderOrtb2, moduleConfig, segmentData)

\* getSegments, then the two routes, each under makeSafe.  The legacy route
\* (setSegments) calls the publisher's params.overwrites functions on the
\* ad units' bids and writes nothing itself; this is the ORTB2 route, by
\* which alone the bidder fragments change.
readAndSetCohorts(bidderOrtb2, moduleConfig, st) ==
  makeSafe(ortb2Route(bidderOrtb2, moduleConfig,
                      getSegments(st, moduleConfig.params.maxSegs))).bidderOrtb2

\* ------------------------------------------------------------------------
\* Bounds and the input sets of the specifications
\* ------------------------------------------------------------------------
MaxCalls == 2

Calls == 1..MaxCalls

StoreWith(f) == [k \in StoreKeys |-> IF k \in DOMAIN f THEN f[k] ELSE Missing]

EmptyStore == StoreWith(EmptyObj)

\* What the SDK cached on an earlier page view
CachedStore ==
  StoreWith(Put([_pcrprs |-> Arr(<<"1000001">>),
                  _pssps |-> Obj([cohorts |-> Arr(<<"s1">>), ssps |-> Arr(<<"b1">>)]),
                  _pprebid |-> Arr(<<"c1">>)],
                 PERMUTIVE_SUBMODULE_CONFIG_KEY, Obj([acBidders |-> <<"b2">>])))

\* What the SDK writes once it is realtime
RealtimeStore ==
  StoreWith([_psegs |-> Arr(<<"1", "1000002">>),
             _pprebid |-> Arr(<<"c2">>),
             _ppsts |-> Obj([k \in {"600"} |-> Arr(<<"t1">>)])])

OrchStores == {EmptyStore, CachedStore, RealtimeStore}

PlatformConfig == Obj([acBidders |-> <<"b1">>, maxSegs |-> 1])

LiveConfigs == {Throws, PlatformConfig}

CallerConfigs ==
  {EmptyObj,
   [waitForIt |-> TRUE],
   [waitForIt |-> TRUE, params |-> [acBidders |-> <<"b2">>]]}

OrchRequests ==
  {EmptyObj,
   [b1 |-> [user |-> [keywords |-> <<"foo=bar">>]]]}

\* ------------------------------------------------------------------------
\* State
\* ------------------------------------------------------------------------
VARIABLES
  store,                        \* local storage
  liveConfig,                   \* what getPermutiveRtdConfig() does now
  permutive,                    \* window.permutive: on the page, realtime
  cachedPermutiveModuleConfig,
  permutiveSDKInRealTime,
  listeners,                    \* calls whose ready listener is registered
  reqs,                         \* per call: reqBidsConfigObj.ortb2Fragments.bidder
  calls,                        \* per call: status, caller config, events
  adUnits,                      \* the bids of getGlobal().adUnits and of
                                \* each call's reqBidsConfigObj.adUnits
  pin,                          \* inputs of a function applied on its own
  pout                          \* its results, in order

orchVars ==
  <<store, liveConfig, permutive, cachedPermutiveModuleConfig,
    permutiveSDKInRealTime, listeners, reqs, calls, adUnits>>

funVars == <<pin, pout>>

vars == <<orchVars, funVars>>

\* A call not made yet.  log: the events of the call in the order the code
\* produces them; seen: what the branch condition read; first: the
\* fragments as the first pass left them.
\* No ad units anywhere: the legacy route has nothing to visit
NoAdUnits == [global |-> Missing, request |-> [c \in Calls |-> Missing]]

IdleCall ==
  [status |-> "idle", custom |-> EmptyObj, callback |-> "returns",
   threw |-> FALSE, log |-> <<>>,
   seen |-> [waitForIt |-> FALSE, onPage |-> FALSE, latch |-> FALSE],
   first |-> EmptyObj]

OrchIdle ==
  /\ store = EmptyStore
  /\ liveConfig = Throws
  /\ permutive = [onPage |-> FALSE, realtime |-> FALSE]
  /\ cachedPermutiveModuleConfig = EmptyObj
  /\ permutiveSDKInRealTime = FALSE
  /\ listeners = {}
  /\ reqs = [c \in Calls |-> EmptyObj]
  /\ calls = [c \in Calls |-> IdleCall]
  /\ adUnits = NoAdUnits

FunIdle == pin = EmptyObj /\ pout = <<>>

\* ------------------------------------------------------------------------
\* The orchestration: getBidRequestData and its ready listener
\* ------------------------------------------------------------------------
isPermutiveOnPage == permutive.onPage

Init ==
  /\ store \in {EmptyStore, CachedStore}
  /\ liveConfig = Throws
  /\ permutive \in {[onPage |-> b, realtime |-> FALSE] : b \in BOOLEAN}
  /\ cachedPermutiveModuleConfig = EmptyObj
  /\ permutiveSDKInRealTime = FALSE
  /\ listeners = {}
  /\ reqs \in [Calls -> OrchRequests]
  /\ calls = [c \in Calls |-> IdleCall]
  /\ adUnits = NoAdUnits
  /\ FunIdle

\* init(): the submodule is initialised by the host
init ==
  /\ cachedPermutiveModuleConfig' = readPermutiveModuleConfigFromCache(store)
  /\ UNCHANGED <<store, liveConfig, permutive, permutiveSDKInRealTime,
                 listeners, reqs, calls, adUnits, funVars>>

\* The events of getBidRequestData when it completes at once: the first
\* pass, then completeBidRequestData()
immediateBranch == <<"pass1", "callback">>

\* ... and when it defers: the first pass, then window.permutive.ready(...)
deferredBranch == <<"pass1", "register">>

readyBranch_NoCallback == <<"pass2">>

readyBranch_CallbackFirst == <<"callback", "pass2">>

\* The events of the ready listener: the second pass, then
\* completeBidRequestData()
readyBranch == <<"pass2", "callback">>

CompletesNow_IgnoresLatch(moduleConfig) ==
  ~(moduleConfig.waitForIt /\ isPermutiveOnPage)

CompletesNow_IgnoresPage(moduleConfig) ==
  permutiveSDKInRealTime \/ ~moduleConfig.waitForIt

\* The branch of getBidRequestData that completes at once
CompletesNow(moduleConfig) ==
  permutiveSDKInRealTime \/ ~(moduleConfig.waitForIt /\ isPermutiveOnPage)

\* What a callback handed to getBidRequestData does when it is invoked
Callbacks == {"returns", "throws"}

\* completeBidRequestData(): the callback is invoked; its exception is the
\* exception of the invocation
completeBidRequestData(callback) == [thrown |-> callback = "throws"]

\* What the two routes of a pass leave: the call's fragments, the ad
\* units, and whether an exception got past makeSafe
bothRoutes(c, legacy, ortb2) ==
  [bidderOrtb2 |-> ortb2.bidderOrtb2,
   adUnits |-> [global |-> legacy.global,
                request |-> [adUnits.request EXCEPT ![c] = legacy.request]],
   thrown |-> legacy.thrown \/ ortb2.thrown]

\* One pass of a call: readAndSetCohorts with both routes, each under
\* makeSafe
passOf(c, moduleConfig) ==
  bothRoutes(c,
             makeSafe(setSegments(adUnits.request[c], adUnits.global, moduleConfig)),
             makeSafe(ortb2Route(reqs[c], moduleConfig,
                                 getSegments(store, moduleConfig.params.maxSegs))))

getBidRequestData(c, callback, customModuleConfig) ==
  LET moduleConfig == getModuleConfig(liveConfig, cachedPermutiveModuleConfig,
                                      customModuleConfig)
      seen == [waitForIt |-> moduleConfig.waitForIt,
               onPage |-> isPermutiveOnPage,
               latch |-> permutiveSDKInRealTime]
      branch == makeSafe(IF CompletesNow(moduleConfig)
                         THEN completeBidRequestData(callback)
                         ELSE [thrown |-> FALSE])
  IN /\ calls[c].status = "idle"
     /\ \A d \in Calls : d < c => calls[d].status # "idle"
     /\ \E pass \in {passOf(c, moduleConfig)} :
          /\ reqs' = [reqs EXCEPT ![c] = pass.bidderOrtb2]
          /\ adUnits' = pass.adUnits
          /\ IF pass.thrown
             THEN /\ calls' = [calls EXCEPT ![c] =
                                 [status |-> "done", custom |-> customModuleConfig,
                                  callback |-> callback, threw |-> TRUE,
                                  log |-> <<"pass1">>, seen |-> seen,
                                  first |-> pass.bidderOrtb2]]
                  /\ UNCHANGED listeners
             ELSE IF CompletesNow(moduleConfig)
             THEN /\ calls' = [calls EXCEPT ![c] =
                                 [status |-> "done", custom |-> customModuleConfig,
                                  callback |-> callback, threw |-> branch.thrown,
                                  log |-> immediateBranch, seen |-> seen,
                                  first |-> pass.bidderOrtb2]]
                  /\ UNCHANGED listeners
             ELSE /\ calls' = [calls EXCEPT ![c] =
                                 [status |-> "waiting", custom |-> customModuleConfig,
                                  callback |-> callback, threw |-> branch.thrown,
                                  log |-> deferredBranch, seen |-> seen,
                                  first |-> pass.bidderOrtb2]]
                  /\ listeners' = listeners \cup {c}
     /\ UNCHANGED <<store, liveConfig, permutive, cachedPermutiveModuleConfig,
                    permutiveSDKInRealTime, funVars>>

\* The second pass run with the platform layer of the first pass: what the
\* SDK published since is not read
readyListener_StaleConfig(c) ==
  LET moduleConfig == getModuleConfig(Throws, cachedPermutiveModuleConfig,
                                      calls[c].custom)
  IN /\ c \in listeners
     /\ permutive.realtime
     /\ permutiveSDKInRealTime' = TRUE
     /\ \E pass \in {passOf(c, moduleConfig)} :
          /\ reqs' = [reqs EXCEPT ![c] = pass.bidderOrtb2]
          /\ adUnits' = pass.adUnits
     /\ calls' = [calls EXCEPT ![c].status = "done",
                               ![c].log = @ \o readyBranch]
     /\ listeners' = listeners \ {c}
     /\ UNCHANGED <<store, liveConfig, permutive, cachedPermutiveModuleConfig, funVars>>

\* The listener that fires takes every other registered listener with it
readyListener_ClearsAll(c) ==
  LET moduleConfig == getModuleConfig(liveConfig, cachedPermutiveModuleConfig,
                                      calls[c].custom)
  IN /\ c \in listeners
     /\ permutive.realtime
     /\ permutiveSDKInRealTime' = TRUE
     /\ \E pass \in {passOf(c, moduleConfig)} :
          /\ reqs' = [reqs EXCEPT ![c] = pass.bidderOrtb2]
          /\ adUnits' = pass.adUnits
     /\ calls' = [calls EXCEPT ![c].status = "done",
                               ![c].log = @ \o readyBranch]
     /\ listeners' = {}
     /\ UNCHANGED <<store, liveConfig, permutive, cachedPermutiveModuleConfig, funVars>>

\* The function handed to window.permutive.ready(..., 'realtime')
readyListener(c) ==
  LET moduleConfig == getModuleConfig(liveConfig, cachedPermutiveModuleConfig,
                                      calls[c].custom)
  IN /\ c \in listeners
     /\ permutive.realtime
     /\ permutiveSDKInRealTime' = TRUE
     /\ \E pass \in {passOf(c, moduleConfig)} :
          /\ reqs' = [reqs EXCEPT ![c] = pass.bidderOrtb2]
          /\ adUnits' = pass.adUnits
     /\ calls' = [calls EXCEPT ![c].status = "done",
                               ![c].log = @ \o readyBranch]
     /\ listeners' = listeners \ {c}
     /\ UNCHANGED <<store, liveConfig, permutive, cachedPermutiveModuleConfig, funVars>>

\* The environment: the SDK script arrives on the page
SdkLoads ==
  /\ ~permutive.onPage
  /\ permutive' = [permutive EXCEPT !.onPage = TRUE]
  /\ UNCHANGED <<store, liveConfig, cachedPermutiveModuleConfig,
                 permutiveSDKInRealTime, listeners, reqs, calls, adUnits, funVars>>

\* The environment: the SDK reaches realtime, writes its cohorts and
\* publishes the platform configuration
SdkRealtime ==
  /\ permutive.onPage /\ ~permutive.realtime
  /\ permutive' = [permutive EXCEPT !.realtime = TRUE]
  /\ store' = RealtimeStore
  /\ liveConfig' \in LiveConfigs
  /\ UNCHANGED <<cachedPermutiveModuleConfig, permutiveSDKInRealTime,
                 listeners, reqs, calls, adUnits, funVars>>

Next ==
  \/ init
  \/ \E c \in Calls, cfg \in CallerConfigs : getBidRequestData(c, "returns", cfg)
  \/ \E c \in Calls : readyListener(c)
  \/ SdkLoads
  \/ SdkRealtime

Spec == Init /\ [][Next]_vars

\* The listener of a deferred call runs once the SDK is realtime; nothing
\* obliges the SDK to load or to become realtime.
\* A step that takes c out of listeners is a readyListener(c) step.
ListenerFires(c) ==
  c \in listeners /\ permutive.realtime /\ listeners' = listeners \ {c}

FairSpec == Spec /\ \A c \in Calls : WF_listeners(ListenerFires(c))

\* ------------------------------------------------------------------------
\* Properties of the orchestration
\* ------------------------------------------------------------------------
Count(log, e) == Cardinality({i \in 1..Len(log) : log[i] = e})

Called(c) == calls[c].status # "idle"

Position(log, e) == CHOOSE i \in 1..Len(log) : log[i] = e

\* C1 as claimed: every call made has its callback invoked exactly once,
\* on either branch.
C1_CallbackExactlyOnce ==
  \A c \in Calls : Called(c) ~> (Count(calls[c].log, "callback") = 1)

\* C1 amended: the callback of a call is invoked at most once; exactly once
\* when the call took the immediate branch or its ready listener has fired,
\* and not at all while a deferred call's listener has not fired.
C1_CallbackAtMostOnce ==
  \A c \in Calls :
     /\ Count(calls[c].log, "callback") <= 1
     /\ (Called(c) /\ ~Includes(calls[c].log, "register"))
          => Count(calls[c].log, "callback") = 1
     /\ Includes(calls[c].log, "pass2") => Count(calls[c].log, "callback") = 1
     /\ (Includes(calls[c].log, "register") /\ ~Includes(calls[c].log, "pass2"))
          => Count(calls[c].log, "callback") = 0

C1_Witness ==
  /\ \E c \in Calls : Includes(calls[c].log, "pass2")
                        /\ Count(calls[c].log, "callback") = 1
  /\ \E c \in Calls : calls[c].log = immediateBranch

\* C2: the latch never goes back to false, and a call made while it is
\* true runs one pass, invokes the callback before it returns and registers
\* no listener, whatever waitForIt and the SDK's presence.
C2_LatchPermanent ==
  [][permutiveSDKInRealTime =>
       /\ permutiveSDKInRealTime'
       /\ \A c \in Calls :
            (~Called(c) /\ calls'[c].status # "idle")
              => /\ calls'[c].log = <<"pass1", "callback">>
                 /\ calls'[c].status = "done"
                 /\ c \notin listeners']_vars

C2_Witness ==
  \E c \in Calls :
     /\ calls[c].seen = [waitForIt |-> TRUE, onPage |-> TRUE, latch |-> TRUE]
     /\ calls[c].log = <<"pass1", "callback">>

\* C3: a call defers exactly when the resolved waitForIt is true, the SDK
\* is on the page and the latch is false, and otherwise invokes the
\* callback before returning; a deferred call whose listener has not fired
\* has no callback invoked and its fragments are those of the first pass.
C3_DeferredIff ==
  /\ [][\A c \in Calls :
          (~Called(c) /\ calls'[c].status # "idle") =>
             LET resolved == getModuleConfig(liveConfig, cachedPermutiveModuleConfig,
                                             calls'[c].custom)
                 defers == resolved.waitForIt /\ permutive.onPage
                           /\ ~permutiveSDKInRealTime
             IN /\ (c \in listeners') = defers
                /\ Includes(calls'[c].log, "register") = defers
                /\ ~defers => calls'[c].log = <<"pass1", "callback">>]_vars
  /\ [](\A c \in Calls :
          c \in listeners =>
             /\ Count(calls[c].log, "callback") = 0
             /\ reqs[c] = calls[c].first)

C3_Witness ==
  \E c \in Calls :
     /\ c \in listeners
     /\ calls[c].log = <<"pass1", "register">>
     /\ permutive.realtime
     /\ \E b \in DOMAIN reqs[c] :
          deepAccessOr(reqs[c][b], <<"user", "ext", "data", "p_standard">>, <<>>) # <<>>

\* C4: within a call the first pass precedes the second pass and the
\* callback, and on the deferred branch the callback follows the second
\* pass.
C4_PassOrder ==
  \A c \in Calls :
     LET log == calls[c].log
     IN /\ Called(c) => log[1] = "pass1"
        /\ Count(log, "pass1") <= 1 /\ Count(log, "pass2") <= 1
        /\ Includes(log, "pass2") => Position(log, "pass1") < Position(log, "pass2")
        /\ Includes(log, "callback") => Position(log, "pass1") < Position(log, "callback")
        /\ (Includes(log, "register") /\ Includes(log, "callback"))
             => /\ Includes(log, "pass2")
                /\ Position(log, "pass2") < Position(log, "callback")

C4_Witness ==
  \E c \in Calls : calls[c].log = <<"pass1", "register", "pass2", "callback">>

\* ------------------------------------------------------------------------
\* The configuration resolver on its own: SpecConfig
\* ------------------------------------------------------------------------
\* What the store holds under the configuration key
StoredConfigs ==
  {Missing, Malformed, Scalar,
   Obj([maxSegs |-> 2]),
   Obj([acBidders |-> <<"w">>, overwrites |-> [ix |-> "fnStored"]])}

\* What getPermutiveRtdConfig() does
PlatformConfigs ==
  {Throws, Scalar, Obj(EmptyObj),
   Obj([maxSegs |-> 10, acBidders |-> <<"x">>]),
   Obj([acBidders |-> <<"x", "x2">>, overwrites |-> [appnexus |-> "fnPlatform"]]),
   Obj([ccBidders |-> <<"z">>, transformations |-> <<>>])}

\* What the publisher passes to getBidRequestData
CustomConfigs ==
  {EmptyObj,
   [params |-> [acBidders |-> <<"y">>]],
   [waitForIt |-> TRUE],
   [waitForIt |-> TRUE,
    params |-> [maxSegs |-> 3, overwrites |-> [rubicon |-> "fnCustom"]]],
   [params |-> [acBidders |-> <<>>, ccBidders |-> <<"v">>,
                overwrites |-> [appnexus |-> "fnCustom"]]]}

OrchRestIdle ==
  /\ permutive = [onPage |-> FALSE, realtime |-> FALSE]
  /\ permutiveSDKInRealTime = FALSE
  /\ listeners = {}
  /\ reqs = [c \in Calls |-> EmptyObj]
  /\ calls = [c \in Calls |-> IdleCall]
  /\ adUnits = NoAdUnits

InitConfig ==
  /\ store \in {StoreWith([k \in {PERMUTIVE_SUBMODULE_CONFIG_KEY} |-> v]) : v \in StoredConfigs}
  /\ liveConfig \in PlatformConfigs
  /\ cachedPermutiveModuleConfig = EmptyObj
  /\ OrchRestIdle
  /\ FunIdle

\* getModuleConfig(customModuleConfig), its layers and its result recorded
Resolve(customModuleConfig) ==
  /\ pout = <<>>
  /\ pout' = <<[custom |-> customModuleConfig,
                platform |-> permutiveModuleConfigOf(liveConfig, cachedPermutiveModuleConfig),
                result |-> getModuleConfig(liveConfig, cachedPermutiveModuleConfig,
                                           customModuleConfig)]>>
  /\ UNCHANGED <<orchVars, pin>>

NextConfig ==
  \/ init
  \/ \E cfg \in CustomConfigs : Resolve(cfg)

SpecConfig == InitConfig /\ [][NextConfig]_vars

\* The value the highest-priority layer holding key k gives it
Layered(k, lower, middle, upper) ==
  IF k \in DOMAIN upper THEN upper[k]
  ELSE IF k \in DOMAIN middle THEN middle[k] ELSE lower[k]

ParamsOf(layer) == IF "params" \in DOMAIN layer THEN layer.params ELSE EmptyObj

OverwritesOf(params) ==
  IF "overwrites" \in DOMAIN params THEN params.overwrites ELSE EmptyObj

\* C9: the resolved configuration takes every key from the caller's layer
\* if it is there, else from the platform's, else from the defaults; an
\* array or scalar is taken whole; params and params.overwrites hold the
\* keys of all three layers.
C9_PriorityOrder ==
  \A i \in 1..Len(pout) :
     LET r == pout[i].result
         dP == ParamsOf(defaultConfig)
         pP == ParamsOf(pout[i].platform)
         cP == ParamsOf(pout[i].custom)
         dO == OverwritesOf(dP)
         pO == OverwritesOf(pP)
         cO == OverwritesOf(cP)
     IN /\ r.waitForIt = Layered("waitForIt", defaultConfig, pout[i].platform, pout[i].custom)
        /\ DOMAIN r.params = (DOMAIN dP) \cup (DOMAIN pP) \cup (DOMAIN cP)
        /\ \A k \in (DOMAIN r.params) \ {"overwrites"} : r.params[k] = Layered(k, dP, pP, cP)
        /\ DOMAIN r.params.overwrites = (DOMAIN dO) \cup (DOMAIN pO) \cup (DOMAIN cO)
        /\ \A b \in DOMAIN r.params.overwrites : r.params.overwrites[b] = Layered(b, dO, pO, cO)
        /\ (/\ pout[i].platform = [params |-> [maxSegs |-> 10, acBidders |-> <<"x">>]]
            /\ pout[i].custom = [params |-> [acBidders |-> <<"y">>]])
           => (r.params.maxSegs = 10 /\ r.params.acBidders = <<"y">>)

C9_Witness ==
  /\ Len(pout) = 1
  /\ pout[1].platform = [params |-> [maxSegs |-> 10, acBidders |-> <<"x">>]]
  /\ pout[1].custom = [params |-> [acBidders |-> <<"y">>]]
  /\ pout[1].result.params.acBidders = <<"y">>
  /\ pout[1].result.params.maxSegs = 10
  /\ pout[1].result.params.ccBidders = <<>>

\* ------------------------------------------------------------------------
\* One pass over fresh fragments, in its two steps: SpecCollect
\* ------------------------------------------------------------------------
MaxSegsBound == 3

CollectStores ==
  {StoreWith([_pcrprs |-> dcr, _psegs |-> std, _pssps |-> ssp,
              _pprebid |-> cc, _papns |-> legacy.apn, _prubicons |-> legacy.rubicon,
              _pindexs |-> legacy.index, _pdfps |-> legacy.gam, _ppsts |-> tp]) :
     dcr \in {Missing, Malformed, Arr(<<"1", "2">>), Arr(<<"1000001", "d1">>)},
     std \in {Missing, Arr(<<"1", "1000001", "1000002">>), Arr(<<"1e6", "x", "999999">>)},
     ssp \in {Missing, Scalar,
              Obj([cohorts |-> Arr(<<"2", "3">>), ssps |-> Arr(<<"b1">>)]),
              Obj([cohorts |-> Arr(<<"s1", "s1", "s2", "s3">>),
                   ssps |-> Arr(<<"b2", "b1">>)])},
     cc \in {Missing, Scalar, Arr(<<"c1", "c2">>)},
     legacy \in {[apn |-> Missing, rubicon |-> Missing, index |-> Missing, gam |-> Missing],
                 [apn |-> Arr(<<"c2", "c3">>), rubicon |-> Scalar,
                  index |-> Arr(<<"c3", "c4">>), gam |-> Arr(<<"c4", "c5">>)]},
     tp \in {Missing, Arr(<<"a", "b">>),
             Obj([k \in {"600", "601"} |->
                    IF k = "600" THEN Arr(<<"t1", "t2", "t3", "t4">>) ELSE Scalar])}}

IabTransformation ==
  [id |-> "iab",
   config |-> [segtax |-> 4,
               iabIds |-> [k \in {"1", "3", "1000001", "s2"} |->
                             CASE k = "1" -> "100"
                               [] k = "3" -> ""
                               [] k = "1000001" -> "101"
                               [] k = "s2" -> unknownIabSegmentId]]]

CollectParams ==
  {[acBidders |-> <<"b1">>],
   [acBidders |-> <<"b1", "b3">>, ccBidders |-> <<"b2">>],
   [acBidders |-> <<>>, transformations |-> <<IabTransformation>>],
   [acBidders |-> <<"b3">>, ccBidders |-> <<"b3">>,
    transformations |-> <<IabTransformation, [id |-> "other", config |-> EmptyObj]>>]}

StoreOnly ==
  /\ liveConfig = Throws
  /\ cachedPermutiveModuleConfig = EmptyObj
  /\ OrchRestIdle

InitCollect ==
  /\ store \in CollectStores
  /\ pin \in {[params |-> Put(p, "maxSegs", n)] : p \in CollectParams, n \in 1..MaxSegsBound}
  /\ pout = <<>>
  /\ StoreOnly

ConfigOf(customModuleConfig) ==
  getModuleConfig(liveConfig, cachedPermutiveModuleConfig, customModuleConfig)

\* const segmentData = getSegments(maxSegs)
Collect ==
  /\ pout = <<>>
  /\ pout' = <<[bundle |-> getSegments(store, ConfigOf(pin).params.maxSegs)]>>
  /\ UNCHANGED <<orchVars, pin>>

\* setBidderRtb(bidderOrtb2, moduleConfig, segmentData) on fresh fragments
Route ==
  /\ Len(pout) = 1
  /\ pout' = Append(pout, [bidderOrtb2 |-> setBidderRtb(EmptyObj, ConfigOf(pin),
                                                     pout[1].bundle).bidderOrtb2])
  /\ UNCHANGED <<orchVars, pin>>

NextCollect == Collect \/ Route

SpecCollect == InitCollect /\ [][NextCollect]_vars

Ids(segment) == [i \in 1..Len(segment) |-> segment[i].id]

\* The ids of the untransformed permutive.com entry of a fragment
WrittenMerged(fragment) ==
  LET entries == SelectSeq(deepAccessOr([ortb2 |-> fragment], UserData, <<>>),
                           LAMBDA el : el.name = ProviderName /\ "ext" \notin DOMAIN el)
  IN IF entries = <<>> THEN <<>> ELSE Ids(entries[1].segment)

\* The first occurrences of the elements of xs, in the order of xs
FirstOccurrences(xs) ==
  LET idx == {i \in 1..Len(xs) : \A j \in 1..(i - 1) : xs[j] # xs[i]}
  IN [k \in 1..Cardinality(idx) |->
        xs[CHOOSE i \in idx : Cardinality({j \in idx : j < i}) = k - 1]]

Prefix(xs, n) == [i \in 1..Min(n, Len(xs)) |-> xs[i]]

\* C7: after a pass every emitted list is at most maxSegs long: the lists
\* of the bundle and, for every bidder, the segment of every user.data entry
\* the pass wrote, user.ext.data.p_standard, user.ext.data.permutive and
\* site.ext.permutive.p_standard.
C7_CapInvariant ==
  LET maxSegs == pin.params.maxSegs
  IN /\ Len(pout) >= 1 =>
          LET b == pout[1].bundle
          IN /\ Len(b.ac) <= maxSegs
             /\ Len(b.customCohorts) <= maxSegs
             /\ Len(b.ssp.cohorts) <= maxSegs
             /\ \A k \in DOMAIN b.topics : Len(b.topics[k]) <= maxSegs
     /\ Len(pout) >= 2 =>
          \A bidder \in DOMAIN pout[2].bidderOrtb2 :
             LET c == [ortb2 |-> pout[2].bidderOrtb2[bidder]]
                 data == deepAccessOr(c, UserData, <<>>)
             IN /\ \A i \in 1..Len(data) : Len(data[i].segment) <= maxSegs
                /\ Len(deepAccessOr(c, UserExtStandard, <<>>)) <= maxSegs
                /\ Len(deepAccessOr(c, UserExtCustom, <<>>)) <= maxSegs
                /\ Len(deepAccessOr(c, SiteExtStandard, <<>>)) <= maxSegs

\* A bidder with both roles whose two lists together exceed the cap
C7_Witness ==
  /\ Len(pout) = 2
  /\ pin.params.maxSegs = 2
  /\ pin.params.acBidders = <<"b1">>
  /\ Includes(pout[1].bundle.ssp.ssps, "b1")
  /\ Len(pout[1].bundle.ac) = 2
  /\ Len(pout[1].bundle.ssp.cohorts) = 2
  /\ Range(pout[1].bundle.ac) \cap Range(pout[1].bundle.ssp.cohorts) = {}
  /\ Len(WrittenMerged(pout[2].bidderOrtb2["b1"])) = 2

\* C10 as stated: a bidder with both roles gets the AC list followed by the
\* new SSP cohorts, cut to maxSegs; an AC-only bidder gets the AC list and
\* an SSP-only bidder gets the SSP list.
C10_RoleUnion ==
  Len(pout) >= 2 =>
    \A bidder \in DOMAIN pout[2].bidderOrtb2 :
       LET ac == pout[1].bundle.ac
           ssp == pout[1].bundle.ssp
           isAc == Includes(pin.params.acBidders, bidder)
           isSsp == Includes(ssp.ssps, bidder)
           written == WrittenMerged(pout[2].bidderOrtb2[bidder])
       IN /\ (isAc /\ isSsp) =>
               written = Prefix(FirstOccurrences(ac \o ssp.cohorts), pin.params.maxSegs)
          /\ (isAc /\ ~isSsp) => written = ac
          /\ (~isAc /\ isSsp) => written = ssp.cohorts

\* C10, amended: a bidder with both roles gets the AC list followed by the
\* new SSP cohorts, without repeated ids, cut to maxSegs; an AC-only bidder
\* gets the AC list without its repeated ids and an SSP-only bidder the SSP
\* list without its repeated ids; a bidder with neither role gets nothing.
C10_RoleUnionDistinct ==
  Len(pout) >= 2 =>
    \A bidder \in DOMAIN pout[2].bidderOrtb2 :
       LET ac == pout[1].bundle.ac
           ssp == pout[1].bundle.ssp
           isAc == Includes(pin.params.acBidders, bidder)
           isSsp == Includes(ssp.ssps, bidder)
           written == WrittenMerged(pout[2].bidderOrtb2[bidder])
       IN /\ (isAc /\ isSsp) =>
               written = Prefix(FirstOccurrences(ac \o ssp.cohorts), pin.params.maxSegs)
          /\ (isAc /\ ~isSsp) => written = FirstOccurrences(ac)
          /\ (~isAc /\ isSsp) => written = FirstOccurrences(ssp.cohorts)
          /\ (~isAc /\ ~isSsp) => written = <<>>

\* ac ['1','2'] and ssp.cohorts ['2','3'] give b1 ['1','2','3']
C10_Witness ==
  /\ Len(pout) = 2
  /\ pin.params.acBidders = <<"b1">>
  /\ pout[1].bundle.ac = <<"1", "2">>
  /\ pout[1].bundle.ssp = [cohorts |-> <<"2", "3">>, ssps |-> <<"b1">>]
  /\ WrittenMerged(pout[2].bidderOrtb2["b1"]) = <<"1", "2", "3">>

\* ------------------------------------------------------------------------
\* Passes over fragments bidders already hold: SpecPass
\* ------------------------------------------------------------------------
MaxPasses == 2

\* A fragment with content at every level the writer passes through
RichFragment ==
  [device |-> "d",
   user |-> [yob |-> "1990",
             keywords |-> <<"foo=bar", Comma, Space, "baz", Space, Comma,
                            PERMUTIVE_STANDARD_KEYWORD, "=", "old">>,
             data |-> <<[name |-> "other.com", segment |-> <<[id |-> "o1"]>>],
                        [name |-> ProviderName, segment |-> <<[id |-> "old"]>>],
                        [name |-> "third.com", segment |-> <<>>],
                        [name |-> PERMUTIVE_CUSTOM_COHORTS_KEYWORD,
                         segment |-> <<[id |-> "oldc"]>>]>>,
             ext |-> [consent |-> "c",
                      data |-> [p_standard |-> <<"old">>,
                                permutive |-> <<"oldc">>,
                                interests |-> <<"i">>]]],
   site |-> [page |-> "p",
             ext |-> [amp |-> "0",
                      permutive |-> [p_standard |-> <<"old">>, other |-> <<"k">>]]]]

PassRequests ==
  {EmptyObj,
   [b1 |-> [user |-> [keywords |-> <<"foo=bar", Comma, Space, "baz", Space>>]]],
   [b1 |-> [user |-> [keywords |-> <<PERMUTIVE_STANDARD_KEYWORD, "=", "1", Comma, "foo=bar">>]]],
   [b1 |-> RichFragment, zz |-> RichFragment],
   [b1 |-> [site |-> [page |-> "p"]],
    appnexus |-> [user |-> [ext |-> [consent |-> "c"]]]],
   [b1 |-> [user |-> [keywords |-> <<PERMUTIVE_CUSTOM_COHORTS_KEYWORD, "=", "c1">>,
                      data |-> <<[name |-> "other.com", segment |-> <<[id |-> "o1"]>>]>>]]]}

PassParams ==
  {[acBidders |-> <<"b1">>, maxSegs |-> 2],
   [acBidders |-> <<"b1">>, ccBidders |-> <<"b1">>,
    transformations |-> <<[id |-> "other", config |-> EmptyObj], IabTransformation>>],
   [acBidders |-> <<>>, ccBidders |-> <<"b1">>, maxSegs |-> 1]}

PlainStore ==
  StoreWith([_pcrprs |-> Arr(<<"1", "2">>),
             _pssps |-> Obj([cohorts |-> Arr(<<"2", "3">>), ssps |-> Arr(<<"b1">>)]),
             _pprebid |-> Arr(<<"c1">>),
             _ppsts |-> Obj([k \in {"600"} |-> Arr(<<"t1">>)])])

LaterStore ==
  StoreWith([_psegs |-> Arr(<<"1000002">>), _pprebid |-> Arr(<<"c2">>)])

\* Ids holding the separator of the keywords string, or white space
SeparatorStore ==
  StoreWith([_pcrprs |-> Arr(<<"c ">>), _pprebid |-> Arr(<<"a,b">>)])

OtherSspStore ==
  StoreWith([_pcrprs |-> Malformed,
             _pssps |-> Obj([cohorts |-> Arr(<<"s1">>), ssps |-> Arr(<<"b2">>)]),
             _ppsts |-> Obj([k \in {"601"} |-> Arr(<<"t2">>)])])

PassStores == {EmptyStore, PlainStore, LaterStore, SeparatorStore, OtherSspStore}

InitPass ==
  /\ store \in PassStores
  /\ pin \in [bidderOrtb2 : PassRequests, custom : {[params |-> p] : p \in PassParams}]
  /\ pout = <<>>
  /\ StoreOnly

\* The fragments the next pass finds
Current == IF pout = <<>> THEN pin.bidderOrtb2 ELSE pout[Len(pout)].bidderOrtb2

\* readAndSetCohorts(reqBidsConfigObj, moduleConfig), the store it read recorded
Pass ==
  /\ Len(pout) < MaxPasses
  /\ pout' = Append(pout, [store |-> store,
                           bidderOrtb2 |-> readAndSetCohorts(Current, ConfigOf(pin.custom), store)])
  /\ UNCHANGED <<orchVars, pin>>

\* The SDK rewrites the store between two passes
StoreWrite ==
  /\ Len(pout) >= 1
  /\ Len(pout) < MaxPasses
  /\ store' \in PassStores \ {store}
  /\ UNCHANGED <<liveConfig, permutive, cachedPermutiveModuleConfig,
                 permutiveSDKInRealTime, listeners, reqs, calls, adUnits, pin, pout>>

NextPass == Pass \/ StoreWrite

SpecPass == InitPass /\ [][NextPass]_vars

FragmentOf(bidderOrtb2, bidder) ==
  IF bidder \in DOMAIN bidderOrtb2 THEN bidderOrtb2[bidder] ELSE EmptyObj

\* The configuration and the result of one pass over the original fragments
SinglePass(st) == readAndSetCohorts(pin.bidderOrtb2, ConfigOf(pin.custom), st)

\* The tokens of a keywords string
Tokens(keywords) == {trim(t) : t \in Range(split(keywords))} \ {<<>>}

KeywordsIn(fragment) == deepAccessOr(fragment, <<"user", "keywords">>, <<>>)

\* The ids of the custom cohort entry of a fragment
WrittenCustom(fragment) ==
  LET entries == SelectSeq(deepAccessOr(fragment, <<"user", "data">>, <<>>),
                           LAMBDA el : el.name = PERMUTIVE_CUSTOM_COHORTS_KEYWORD)
  IN IF entries = <<>> THEN <<>> ELSE Ids(entries[1].segment)

\* Two fragments agree on a path: both lack it or both hold the same value
SameAt(f, g, path) ==
  /\ HasPath([ortb2 |-> f], path) = HasPath([ortb2 |-> g], path)
  /\ deepAccessOr([ortb2 |-> f], path, <<>>) = deepAccessOr([ortb2 |-> g], path, <<>>)

\* C5 as stated: the fragments after a first pass with store S1 and a second
\* pass with store S2 equal the fragments of a single pass with S2 over the
\* original fragments.
C5_FullOverwrite ==
  Len(pout) >= 2 => pout[2].bidderOrtb2 = SinglePass(pout[2].store)

\* The bidders a pass over store st writes
WrittenBidders(st) ==
  LET moduleConfig == ConfigOf(pin.custom)
  IN Range(candidateBidders(moduleConfig.params.acBidders,
                            getSegments(st, moduleConfig.params.maxSegs).ssp.ssps,
                            moduleConfig.params.ccBidders))

\* C5, amended: after a first pass with S1 and a second pass with S2, for
\* every bidder the second pass writes (an AC bidder, a custom cohort bidder,
\* a legacy bidder or an SSP listed in S2) user.data equals the user.data of
\* a single pass with S2 over the original fragment; the tokens of
\* user.keywords are those of the first pass together with those of the
\* single pass; each of user.ext.data.p_standard, site.ext.permutive.p_standard
\* and user.ext.data.permutive holds the list of S2 when that list is not
\* empty and is as the first pass left it otherwise.  The fragment of every
\* other bidder is as the first pass left it.
C5_SecondPassEffect ==
  Len(pout) >= 2 =>
    \A bidder \in DOMAIN pout[2].bidderOrtb2 :
       LET first == FragmentOf(pout[1].bidderOrtb2, bidder)
           second == pout[2].bidderOrtb2[bidder]
           single == FragmentOf(SinglePass(pout[2].store), bidder)
           merged == WrittenMerged(single)
           custom == WrittenCustom(single)
       IN IF bidder \in WrittenBidders(pout[2].store)
          THEN /\ SameAt(second, single, UserData)
               /\ Tokens(KeywordsIn(second))
                    = Tokens(KeywordsIn(first)) \cup Tokens(KeywordsIn(single))
               /\ IF merged # <<>>
                  THEN /\ deepAccessOr([ortb2 |-> second], UserExtStandard, <<>>) = merged
                       /\ deepAccessOr([ortb2 |-> second], SiteExtStandard, <<>>) = merged
                  ELSE /\ SameAt(second, first, UserExtStandard)
                       /\ SameAt(second, first, SiteExtStandard)
               /\ IF custom # <<>>
                  THEN deepAccessOr([ortb2 |-> second], UserExtCustom, <<>>) = custom
                  ELSE SameAt(second, first, UserExtCustom)
          ELSE /\ bidder \in DOMAIN pout[1].bidderOrtb2
               /\ second = first

\* A second pass over an emptied store: what the first pass wrote for b1 stays
C5_Witness ==
  /\ Len(pout) = 2
  /\ pin.bidderOrtb2 = EmptyObj
  /\ pout[1].store = PlainStore
  /\ pout[2].store = EmptyStore
  /\ WrittenMerged(pout[2].bidderOrtb2["b1"]) = <<>>
  /\ deepAccessOr([ortb2 |-> pout[2].bidderOrtb2["b1"]], UserExtStandard, <<>>) = <<"1", "2">>
  /\ <<PERMUTIVE_STANDARD_KEYWORD, "=", "1">> \in Tokens(KeywordsIn(pout[2].bidderOrtb2["b1"]))

\* C6: a pass repeated over the same store and configuration leaves every
\* fragment as the first of the two left it.
C6_Idempotent ==
  \A i \in 2..Len(pout) :
     pout[i].store = pout[i - 1].store => pout[i].bidderOrtb2 = pout[i - 1].bidderOrtb2

Restrict(obj, reserved) == [k \in (DOMAIN obj) \ reserved |-> obj[k]]

\* What a fragment holds outside the reserved output paths
Frame(fragment) ==
  [root |-> Restrict(fragment, {"user", "site"}),
   user |-> Restrict(deepAccessOr(fragment, <<"user">>, EmptyObj),
                     {"data", "keywords", "ext"}),
   userData |-> SelectSeq(deepAccessOr(fragment, <<"user", "data">>, <<>>),
                          LAMBDA el : el.name \notin {ProviderName,
                                                      PERMUTIVE_CUSTOM_COHORTS_KEYWORD}),
   userExt |-> Restrict(deepAccessOr(fragment, <<"user", "ext">>, EmptyObj), {"data"}),
   userExtData |-> Restrict(deepAccessOr(fragment, <<"user", "ext", "data">>, EmptyObj),
                            {PERMUTIVE_STANDARD_KEYWORD, PERMUTIVE_CUSTOM_COHORTS_KEYWORD}),
   site |-> Restrict(deepAccessOr(fragment, <<"site">>, EmptyObj), {"ext"}),
   siteExt |-> Restrict(deepAccessOr(fragment, <<"site", "ext">>, EmptyObj), {"permutive"}),
   siteExtPermutive |-> Restrict(deepAccessOr(fragment, <<"site", "ext", "permutive">>,
                                              EmptyObj),
                                 {PERMUTIVE_STANDARD_KEYWORD})]

\* The fragments pass i found
Before(i) == IF i = 1 THEN pin.bidderOrtb2 ELSE pout[i - 1].bidderOrtb2

\* C8: a pass leaves every bidder's fragment as it was outside the reserved
\* output paths: the user.data entries of other providers in their order and
\* the sibling keys at the root, under user, user.ext, user.ext.data, site,
\* site.ext and site.ext.permutive; no bidder's fragment is removed.
C8_NonDestructive ==
  \A i \in 1..Len(pout) :
     /\ DOMAIN Before(i) \subseteq DOMAIN pout[i].bidderOrtb2
     /\ \A bidder \in DOMAIN pout[i].bidderOrtb2 :
           Frame(pout[i].bidderOrtb2[bidder]) = Frame(FragmentOf(Before(i), bidder))

\* The rich fragment of b1 after a pass that rewrote its reserved paths
C8_Witness ==
  /\ Len(pout) >= 1
  /\ FragmentOf(pin.bidderOrtb2, "b1") = RichFragment
  /\ pout[1].bidderOrtb2["b1"].user.ext.data.p_standard = <<"1", "2">>
  /\ pout[1].bidderOrtb2["b1"].user.ext.data.interests = <<"i">>
  /\ pout[1].bidderOrtb2["b1"].site.ext.permutive.other = <<"k">>
  /\ Len(pout[1].bidderOrtb2["b1"].user.data) > 4
  /\ pout[1].bidderOrtb2["b1"].user.data[2].name = "third.com"
  /\ pout[1].bidderOrtb2["b1"].user.yob = "1990"

\* ------------------------------------------------------------------------
\* The taxonomy transformation within a pass
\* ------------------------------------------------------------------------
TransformationsOf(params) ==
  IF "transformations" \in DOMAIN params THEN params.transformations ELSE <<>>

\* An id iabIds gives a usable IAB id: a value that is not empty and is
\* not the sentinel itself
Mapped(id, iabIds) ==
  id \in DOMAIN iabIds /\ iabIds[id] \notin {"", unknownIabSegmentId}

\* The entries of user.data carrying the segtax of a transformation
EntriesWithSegtax(fragment, segtax) ==
  SelectSeq(deepAccessOr(fragment, <<"user", "data">>, <<>>),
            LAMBDA el : "ext" \in DOMAIN el /\ el.ext.segtax = segtax)

\* C11: for every bidder of a pass and every iab transformation of the
\* configuration, user.data holds one transformed entry: named as the
\* permutive.com entry, with ext.segtax of the transformation, and as segment
\* the IAB ids of the mapped ids of the permutive.com entry in their order,
\* never the sentinel, possibly none; the permutive.com entry itself still
\* holds every id.
C11_IabTransformation ==
  Len(pout) >= 2 =>
    \A bidder \in DOMAIN pout[2].bidderOrtb2 :
       LET fragment == pout[2].bidderOrtb2[bidder]
           merged == WrittenMerged(fragment)
           ac == IF Includes(pin.params.acBidders, bidder) THEN pout[1].bundle.ac ELSE <<>>
           ssp == IF Includes(pout[1].bundle.ssp.ssps, bidder)
                  THEN pout[1].bundle.ssp.cohorts ELSE <<>>
           configs == SelectSeq(TransformationsOf(pin.params), LAMBDA c : c.id = "iab")
       IN /\ merged = Prefix(FirstOccurrences(ac \o ssp), pin.params.maxSegs)
          /\ \A i \in 1..Len(configs) :
                LET config == configs[i].config
                    kept == SelectSeq(merged, LAMBDA id : Mapped(id, config.iabIds))
                    entries == EntriesWithSegtax(fragment, config.segtax)
                IN /\ Len(entries) = 1
                   /\ entries[1].name = ProviderName
                   /\ DOMAIN entries[1] = {"name", "ext", "segment"}
                   /\ entries[1].ext = [segtax |-> config.segtax]
                   /\ Ids(entries[1].segment) = [j \in 1..Len(kept) |-> config.iabIds[kept[j]]]
                   /\ \A j \in 1..Len(entries[1].segment) :
                         entries[1].segment[j].id # unknownIabSegmentId
          /\ TransformationsOf(pin.params) = <<>> =>
                \A el \in Range(deepAccessOr(fragment, <<"user", "data">>, <<>>)) :
                   "ext" \in DOMAIN el => el.ext.segtax # 4

\* iabIds {'1': '100'} and ids ['1','2'] give [{id: '100'}]
C11_Witness ==
  /\ Len(pout) = 2
  /\ TransformationsOf(pin.params) # <<>>
  /\ "b3" \in DOMAIN pout[2].bidderOrtb2
  /\ WrittenMerged(pout[2].bidderOrtb2["b3"]) = <<"1", "2">>
  /\ EntriesWithSegtax(pout[2].bidderOrtb2["b3"], 4)
       = <<[name |-> ProviderName, ext |-> [segtax |-> 4], segment |-> <<[id |-> "100"]>>]>>

\* ------------------------------------------------------------------------
\* Faults of the sources
\* ------------------------------------------------------------------------
\* The type getSegments expects under a key
ExpectedType(key) == IF key \in {"_pssps", "_ppsts"} THEN "object" ELSE "array"

Valid(st, key) == st[key].t = ExpectedType(key)

\* The store with every missing, malformed or wrongly typed source removed
ValidSourcesOnly(st) == [k \in StoreKeys |-> IF Valid(st, k) THEN st[k] ELSE Missing]

\* C12: every source that is missing, malformed or of the wrong type yields
\* its default, and the bundle is the one read from the valid sources alone.
C12_FaultIsolated ==
  Len(pout) >= 1 =>
    LET bundle == pout[1].bundle
        maxSegs == pin.params.maxSegs
    IN /\ bundle = getSegments(ValidSourcesOnly(store), maxSegs)
       /\ ~Valid(store, "_ppsts") => bundle.topics = EmptyObj
       /\ ~Valid(store, "_pssps") => bundle.ssp = [cohorts |-> <<>>, ssps |-> <<>>]
       /\ (~Valid(store, "_pcrprs") /\ ~Valid(store, "_psegs")) => bundle.ac = <<>>
       /\ (\A k \in {"_pprebid", "_papns", "_prubicons", "_pindexs", "_pdfps"} :
              ~Valid(store, k)) => bundle.customCohorts = <<>>

\* ------------------------------------------------------------------------
\* The keywords of a pass
\* ------------------------------------------------------------------------
\* The bundle pass i collected
BundleOf(i) == getSegments(pout[i].store, ConfigOf(pin.custom).params.maxSegs)

\* The SSP cohorts bidder is entitled to in pass i
SspSignalsOf(i, bidder) ==
  IF Includes(BundleOf(i).ssp.ssps, bidder) THEN BundleOf(i).ssp.cohorts ELSE <<>>

\* The tokens <keyword>=<id> of a list of ids
NewTokens(keyword, ids) == [j \in 1..Len(ids) |-> <<keyword, "=">> \o Text(ids[j])]

\* The new tokens of bidder in pass i: group order, id order within a group
PassTokens(i, bidder) ==
  NewTokens(PERMUTIVE_STANDARD_KEYWORD, WrittenMerged(pout[i].bidderOrtb2[bidder]))
  \o NewTokens(PERMUTIVE_STANDARD_AUD_KEYWORD, SspSignalsOf(i, bidder))
  \o NewTokens(PERMUTIVE_CUSTOM_COHORTS_KEYWORD, WrittenCustom(pout[i].bidderOrtb2[bidder]))

\* The trimmed, non-empty tokens of a keywords string, in order
TokenList(keywords) == SelectSeq(trimAll(split(keywords)), LAMBDA t : t # <<>>)

\* C13: after a pass the comma-separated tokens of user.keywords are the
\* trimmed non-empty tokens the string held before, followed by the new
\* tokens in group order p_standard, p_standard_aud, permutive and id order,
\* every token once and none empty.
C13_KeywordsUnion ==
  \A i \in 1..Len(pout) :
     \A bidder \in WrittenBidders(pout[i].store) :
        LET before == KeywordsIn(FragmentOf(Before(i), bidder))
            after == KeywordsIn(pout[i].bidderOrtb2[bidder])
            expected == FirstOccurrences(TokenList(before) \o PassTokens(i, bidder))
        IN IF expected = <<>>
           THEN after = <<>>
           ELSE split(after) = expected

\* ------------------------------------------------------------------------
\* Passes over fragments the writer cannot process
\* ------------------------------------------------------------------------
\* Maps in which one candidate's fragment makes updateOrtbConfig throw,
\* with candidates before it and after it in the iteration order
FaultRequests ==
  {EmptyObj,
   [rubicon |-> [user |-> [data |-> NotAnArray]],
    appnexus |-> [site |-> [page |-> "p"]]],
   [ix |-> [user |-> [yob |-> "1990", keywords |-> NotAString,
                      data |-> <<[name |-> "other.com", segment |-> <<[id |-> "o1"]>>],
                                 [name |-> ProviderName, segment |-> <<[id |-> "old"]>>]>>]]],
   [b1 |-> [user |-> [keywords |-> NotAString]],
    zz |-> [user |-> [data |-> NotAnArray]]],
   [gam |-> [user |-> [data |-> NotAnArray]]]}

InitFault ==
  /\ store \in PassStores
  /\ pin \in [bidderOrtb2 : FaultRequests, custom : {[params |-> p] : p \in PassParams}]
  /\ pout = <<>>
  /\ StoreOnly

SpecFault == InitFault /\ [][NextPass]_vars

\* A fragment the writer can process
WellFormed(fragment) ==
  /\ deepAccessOr(fragment, <<"user", "data">>, <<>>) # NotAnArray
  /\ deepAccessOr(fragment, <<"user", "keywords">>, <<>>) # NotAString

\* The candidates of pass i, in the order they are visited
CandidatesOf(i) ==
  candidateBidders(ConfigOf(pin.custom).params.acBidders,
                   BundleOf(i).ssp.ssps,
                   ConfigOf(pin.custom).params.ccBidders)

\* What the write of bidder alone makes of the fragment pass i found
WriteOf(i, bidder) ==
  writeBidder(Before(i), ConfigOf(pin.custom), BundleOf(i), bidder).bidderOrtb2[bidder]

\* Pass i wrote the fragment of bidder
WrittenIn(i, bidder) ==
  /\ bidder \in DOMAIN pout[i].bidderOrtb2
  /\ pout[i].bidderOrtb2[bidder] = WriteOf(i, bidder)

\* The write of some candidate of pass i failed
FailedIn(i) ==
  \E b \in Range(CandidatesOf(i)) : ~WellFormed(FragmentOf(Before(i), b))

\* C14: when the write for one bidder fails in a pass, the fragment of every
\* other candidate is still written in that pass.
C14_OthersStillWritten ==
  \A i \in 1..Len(pout) :
     \A b \in Range(CandidatesOf(i)) :
        WellFormed(FragmentOf(Before(i), b)) => WrittenIn(i, b)

\* The candidates visited before the failing one are written, the ones
\* after it are not: the exception leaves the loop
C14_LoopLeft ==
  \E i \in 1..Len(pout) :
     \E j, k, l \in 1..Len(CandidatesOf(i)) :
        /\ j < k /\ k < l
        /\ ~WellFormed(FragmentOf(Before(i), CandidatesOf(i)[k]))
        /\ WrittenIn(i, CandidatesOf(i)[j])
        /\ CandidatesOf(i)[l] \notin DOMAIN pout[i].bidderOrtb2

\* The first candidate of pass i whose fragment the writer cannot process
FirstFailed(i) ==
  LET bad == SelectSeq(CandidatesOf(i),
                       LAMBDA b : ~WellFormed(FragmentOf(Before(i), b)))
  IN bad[1]

\* C15: when the write for a bidder fails, also part-way through the
\* sub-writes, the bidder's entry in the map after the pass is exactly the
\* entry before it: no partially written fragment is observable.
C15_FailedEntryUnchanged ==
  \A i \in 1..Len(pout) :
     \A b \in Range(CandidatesOf(i)) :
        ~WellFormed(FragmentOf(Before(i), b))
          => /\ b \in DOMAIN pout[i].bidderOrtb2
             /\ pout[i].bidderOrtb2[b] = Before(i)[b]

\* A write that failed after the user.data sub-write: the keywords are not
\* a string, a candidate before it was written, and the entry is as before
C15_Witness ==
  \E i \in 1..Len(pout) :
     /\ FailedIn(i)
     /\ KeywordsIn(Before(i)[FirstFailed(i)]) = NotAString
     /\ deepAccessOr(Before(i)[FirstFailed(i)], <<"user", "data">>, <<>>) # <<>>
     /\ \E b \in Range(CandidatesOf(i)) : b # FirstFailed(i) /\ WrittenIn(i, b)
     /\ pout[i].bidderOrtb2[FirstFailed(i)] = Before(i)[FirstFailed(i)]

\* ------------------------------------------------------------------------
\* The host's call under faults
\* ------------------------------------------------------------------------
\* The one call the host makes here
HostCall == 1

HostBids ==
  <<[bidder |-> "b1", patched |-> FALSE],
    [bidder |-> "appnexusAst", patched |-> FALSE],
    [bidder |-> "rubicon", patched |-> FALSE]>>

\* What the host hands over as reqBidsConfigObj: nothing, a request without
\* bidder fragments, fragments the writer cannot process, sound fragments
HostRequests ==
  {NoRequest,
   NoFragments,
   [rubicon |-> [user |-> [data |-> NotAnArray]]],
   [b1 |-> [user |-> [keywords |-> <<"foo=bar">>]]]}

HostConfigs ==
  {EmptyObj,
   [params |-> [overwrites |-> [appnexus |-> "fnPatches"]]],
   [waitForIt |-> TRUE, params |-> [overwrites |-> [appnexus |-> "fnPatches"]]],
   [waitForIt |-> TRUE,
    params |-> [overwrites |-> [b1 |-> "fnPatches", appnexus |-> "fnThrows",
                                rubicon |-> "fnPatches"]]]}

InitHost ==
  /\ store \in {EmptyStore, CachedStore}
  /\ liveConfig = Throws
  /\ permutive \in {[onPage |-> b, realtime |-> FALSE] : b \in BOOLEAN}
  /\ cachedPermutiveModuleConfig = EmptyObj
  /\ permutiveSDKInRealTime = FALSE
  /\ listeners = {}
  /\ reqs \in {[c \in Calls |-> IF c = HostCall THEN r ELSE EmptyObj] : r \in HostRequests}
  /\ calls = [c \in Calls |-> IdleCall]
  /\ adUnits \in {[global |-> g,
                   request |-> [c \in Calls |-> IF c = HostCall THEN r ELSE Missing]] :
                    g \in {Missing, Arr(HostBids)}, r \in {Missing, Arr(HostBids)}}
  /\ reqs[HostCall] = NoRequest => adUnits.request[HostCall] = Missing
  /\ FunIdle

NextHost ==
  \/ init
  \/ \E callback \in Callbacks, cfg \in HostConfigs : getBidRequestData(HostCall, callback, cfg)
  \/ readyListener(HostCall)
  \/ SdkLoads
  \/ SdkRealtime

SpecHost == InitHost /\ [][NextHost]_vars

\* Some bid of a list of ad units was written by an override function
Patched(units) == units.t = "array" /\ \E i \in 1..Len(units.v) : units.v[i].patched

\* getBidRequestData never passes an exception on to the host
C16_NoPropagation == \A c \in Calls : ~calls[c].threw

\* In the non-deferred branch the callback is invoked
C16_CallbackInvoked ==
  \A c \in Calls :
     (Called(c) /\ ~Includes(calls[c].log, "register"))
       => Includes(calls[c].log, "callback")

\* A call without a request object modifies nothing
C16_NoRequestNoChange ==
  \A c \in Calls :
     (Called(c) /\ reqs[c] = NoRequest) => ~Patched(adUnits.global)

\* C16: no fault is fatal to the host: getBidRequestData passes no exception
\* on, whatever the store, the configurations, the request object, the
\* override functions and the callback do; a call without a request object
\* leaves nothing modified; in the non-deferred branch the callback is
\* invoked.
C16_NoFaultFatal ==
  /\ C16_NoPropagation
  /\ C16_NoRequestNoChange
  /\ C16_CallbackInvoked

\* A call without a request object has had an override function write a
\* bid of the global ad units
C16_GlobalBidsWritten ==
  /\ Called(HostCall)
  /\ reqs[HostCall] = NoRequest
  /\ Patched(adUnits.global)

\* ------------------------------------------------------------------------
\* Routing by role
\* ------------------------------------------------------------------------
\* The candidates of the routed bundle, in the order they are visited
RoutedCandidates ==
  candidateBidders(ConfigOf(pin).params.acBidders,
                   pout[1].bundle.ssp.ssps,
                   ConfigOf(pin).params.ccBidders)

\* The user.data entries that carry a taxonomy version and are not the
\* output of a transformation
TopicEntries(fragment) ==
  SelectSeq(deepAccessOr(fragment, <<"user", "data">>, <<>>),
            LAMBDA el : "ext" \in DOMAIN el /\ el.ext.segtax # IabTransformation.config.segtax)

\* C17: topics are not gated by role: after setBidderRtb every candidate
\* bidder has in user.data, for every taxonomy version of the bundle's
\* topics map, one entry named permutive.com with ext.segtax the number of
\* the version and the version's whole topic list as segment, and no other
\* topic entry.
C17_TopicsForAll ==
  Len(pout) >= 2 =>
    \A bidder \in Range(RoutedCandidates) :
       /\ bidder \in DOMAIN pout[2].bidderOrtb2
       /\ Len(TopicEntries(pout[2].bidderOrtb2[bidder]))
            = Cardinality(DOMAIN pout[1].bundle.topics)
       /\ \A k \in DOMAIN pout[1].bundle.topics :
             EntriesWithSegtax(pout[2].bidderOrtb2[bidder], SegtaxOf(k))
               = <<[name |-> ProviderName,
                    ext |-> [segtax |-> SegtaxOf(k)],
                    segment |-> Segment(pout[1].bundle.topics[k])]>>

\* An AC-only, a CC-only and a legacy bidder without cohorts of any kind
\* hold the same topics entry
C17_Witness ==
  /\ Len(pout) = 2
  /\ pin.params.acBidders = <<"b1", "b3">>
  /\ pout[1].bundle.ac = <<>>
  /\ pout[1].bundle.customCohorts = <<>>
  /\ "600" \in DOMAIN pout[1].bundle.topics
  /\ pout[1].bundle.topics["600"] # <<>>
  /\ \A bidder \in {"b3", "b2", "gam"} :
        EntriesWithSegtax(pout[2].bidderOrtb2[bidder], 600)
          = <<[name |-> ProviderName, ext |-> [segtax |-> 600],
               segment |-> Segment(pout[1].bundle.topics["600"])]>>

\* The tokens <keyword>=... of a keywords string, in order
TokensWithKey(keywords, keyword) ==
  SelectSeq(TokenList(keywords),
            LAMBDA t : Len(t) >= 2 /\ t[1] = keyword /\ t[2] = "=")

\* The user.data entries of a fragment named for the custom cohorts
CustomEntries(fragment) ==
  SelectSeq(deepAccessOr(fragment, <<"user", "data">>, <<>>),
            LAMBDA el : el.name = PERMUTIVE_CUSTOM_COHORTS_KEYWORD)

\* bidder is in params.ccBidders or in the legacy set
EntitledToCustom(bidder) ==
  Includes(ConfigOf(pin).params.ccBidders, bidder) \/ Includes(legacyCcBidders, bidder)

\* C18: a candidate receives custom cohorts if and only if it is in
\* params.ccBidders or in the legacy set {ix, rubicon, appnexus, gam}: such
\* a bidder holds the bundle's customCohorts list, same ids in the same
\* order, in the permutive user.data entry, as permutive=<id> keywords and
\* under user.ext.data.permutive; every other candidate holds an empty
\* permutive entry, no permutive= keyword and nothing under
\* user.ext.data.permutive.
C18_CustomByRole ==
  Len(pout) >= 2 =>
    \A bidder \in Range(RoutedCandidates) :
       LET fragment == pout[2].bidderOrtb2[bidder]
           expected == IF EntitledToCustom(bidder)
                       THEN pout[1].bundle.customCohorts ELSE <<>>
       IN /\ CustomEntries(fragment)
               = <<[name |-> PERMUTIVE_CUSTOM_COHORTS_KEYWORD, segment |-> Segment(expected)]>>
          /\ TokensWithKey(KeywordsIn(fragment), PERMUTIVE_CUSTOM_COHORTS_KEYWORD)
               = NewTokens(PERMUTIVE_CUSTOM_COHORTS_KEYWORD, expected)
          /\ IF expected = <<>>
             THEN ~HasPath([ortb2 |-> fragment], UserExtCustom)
             ELSE deepAccessOr([ortb2 |-> fragment], UserExtCustom, <<>>) = expected

\* A bidder of params.ccBidders and a legacy bidder hold two or more custom
\* cohorts, an AC bidder of the same pass holds none
C18_Witness ==
  /\ Len(pout) = 2
  /\ Len(pout[1].bundle.customCohorts) >= 2
  /\ pin.params.acBidders = <<"b1", "b3">>
  /\ WrittenCustom(pout[2].bidderOrtb2["b2"]) = pout[1].bundle.customCohorts
  /\ WrittenCustom(pout[2].bidderOrtb2["gam"]) = pout[1].bundle.customCohorts
  /\ TokensWithKey(KeywordsIn(pout[2].bidderOrtb2["gam"]), PERMUTIVE_CUSTOM_COHORTS_KEYWORD) # <<>>
  /\ WrittenCustom(pout[2].bidderOrtb2["b3"]) = <<>>
  /\ pout[1].bundle.ac # <<>>

\* C19: the pass puts p_standard_aud=<id> keywords only into the fragments
\* of the bidders listed in ssp.ssps, one for every id of ssp.cohorts in
\* their order, including the ids that the cut to maxSegs kept out of the
\* merged list; a candidate not listed in ssp.ssps holds none.
C19_AudienceBySsp ==
  Len(pout) >= 2 =>
    \A bidder \in Range(RoutedCandidates) :
       TokensWithKey(KeywordsIn(pout[2].bidderOrtb2[bidder]), PERMUTIVE_STANDARD_AUD_KEYWORD)
         = IF Includes(pout[1].bundle.ssp.ssps, bidder)
           THEN NewTokens(PERMUTIVE_STANDARD_AUD_KEYWORD,
                          FirstOccurrences(pout[1].bundle.ssp.cohorts))
           ELSE <<>>

\* An SSP bidder holds an audience keyword for an id that the cut kept out
\* of its merged list, while an AC bidder and a legacy bidder hold none
C19_Witness ==
  /\ Len(pout) = 2
  /\ pout[1].bundle.ssp.ssps = <<"b1">>
  /\ pin.params.acBidders = <<"b1", "b3">>
  /\ pout[1].bundle.ac # <<>>
  /\ \E id \in Range(pout[1].bundle.ssp.cohorts) :
        /\ ~Includes(WrittenMerged(pout[2].bidderOrtb2["b1"]), id)
        /\ Includes(TokensWithKey(KeywordsIn(pout[2].bidderOrtb2["b1"]),
                                  PERMUTIVE_STANDARD_AUD_KEYWORD),
                    <<PERMUTIVE_STANDARD_AUD_KEYWORD, "=", id>>)
  /\ TokensWithKey(KeywordsIn(pout[2].bidderOrtb2["b3"]), PERMUTIVE_STANDARD_AUD_KEYWORD) = <<>>
  /\ TokensWithKey(KeywordsIn(pout[2].bidderOrtb2["gam"]), PERMUTIVE_STANDARD_AUD_KEYWORD) = <<>>

\* C20: a pass processes exactly the candidates, the union of acBidders,
\* ssp.ssps, ccBidders and {ix, rubicon, appnexus, gam}: after it every
\* candidate has an entry in the bidder map, written from its earlier entry
\* or from an empty object when it had none, and the entry of every other
\* bidder is as before, none added and none removed.
C20_ExactlyCandidates ==
  \A i \in 1..Len(pout) :
     LET candidates == Range(ConfigOf(pin.custom).params.acBidders)
                       \cup Range(BundleOf(i).ssp.ssps)
                       \cup Range(ConfigOf(pin.custom).params.ccBidders)
                       \cup {"ix", "rubicon", "appnexus", "gam"}
     IN /\ DOMAIN pout[i].bidderOrtb2 = (DOMAIN Before(i)) \cup candidates
        /\ \A bidder \in candidates \ (DOMAIN Before(i)) :
              pout[i].bidderOrtb2[bidder] = WriteOf(i, bidder)
        /\ \A bidder \in (DOMAIN Before(i)) \ candidates :
              pout[i].bidderOrtb2[bidder] = Before(i)[bidder]

\* A pass over sound fragments, a candidate's and another bidder's: the
\* legacy bidders, named by no role list, got entries, the other bidder's
\* entry is as it was
C20_SoundPass ==
  \E i \in 1..Len(pout) :
     /\ "zz" \in DOMAIN Before(i)
     /\ "gam" \notin DOMAIN Before(i)
     /\ ~Includes(ConfigOf(pin.custom).params.ccBidders, "gam")
     /\ "gam" \in DOMAIN pout[i].bidderOrtb2
     /\ CustomEntries(pout[i].bidderOrtb2["gam"]) # <<>>
     /\ pout[i].bidderOrtb2["b1"] # Before(i)["b1"]
     /\ pout[i].bidderOrtb2["zz"] = Before(i)["zz"]

\* A pass left by an exception: a legacy bidder visited after the failing
\* candidate has no entry in the map
C20_CandidateWithoutEntry ==
  \E i \in 1..Len(pout) :
     /\ FailedIn(i)
     /\ FirstFailed(i) # "gam"
     /\ "gam" \notin DOMAIN pout[i].bidderOrtb2

\* ------------------------------------------------------------------------
\* The ext paths and user.data over successive passes
\* ------------------------------------------------------------------------
\* The merged list bidder is entitled to in pass i
MergedFor(i, bidder) ==
  Prefix(FirstOccurrences(
           (IF Includes(ConfigOf(pin.custom).params.acBidders, bidder)
            THEN BundleOf(i).ac ELSE <<>>)
           \o SspSignalsOf(i, bidder)),
         ConfigOf(pin.custom).params.maxSegs)

\* The custom cohorts bidder is entitled to in pass i
CustomFor(i, bidder) ==
  IF Includes(ConfigOf(pin.custom).params.ccBidders, bidder)
     \/ bidder \in {"ix", "rubicon", "appnexus", "gam"}
  THEN BundleOf(i).customCohorts ELSE <<>>

\* Pass i replaced the value at path by list, or left the path as it was
\* when list is empty
ReplacedOrKept(i, bidder, path, list) ==
  IF list = <<>>
  THEN SameAt(FragmentOf(Before(i), bidder), pout[i].bidderOrtb2[bidder], path)
  ELSE /\ HasPath([ortb2 |-> pout[i].bidderOrtb2[bidder]], path)
       /\ deepAccessOr([ortb2 |-> pout[i].bidderOrtb2[bidder]], path, <<>>) = list

\* C21: for every bidder a pass writes, user.ext.data.p_standard and
\* site.ext.permutive.p_standard are as before when the bidder's merged list
\* is empty and hold exactly that list otherwise; user.ext.data.permutive is
\* as before when the bidder's custom cohort list is empty and holds exactly
\* that list otherwise; the sibling keys under user.ext.data and
\* site.ext.permutive are kept.
C21_ExtPaths ==
  \A i \in 1..Len(pout) :
     \A bidder \in WrittenBidders(pout[i].store) :
        /\ ReplacedOrKept(i, bidder, UserExtStandard, MergedFor(i, bidder))
        /\ ReplacedOrKept(i, bidder, SiteExtStandard, MergedFor(i, bidder))
        /\ ReplacedOrKept(i, bidder, UserExtCustom, CustomFor(i, bidder))
        /\ Frame(pout[i].bidderOrtb2[bidder]).userExtData
             = Frame(FragmentOf(Before(i), bidder)).userExtData
        /\ Frame(pout[i].bidderOrtb2[bidder]).siteExtPermutive
             = Frame(FragmentOf(Before(i), bidder)).siteExtPermutive

\* A pass with an empty merged list and a custom cohort over the rich
\* fragment: the two p_standard paths keep their old value, the permutive
\* path is replaced, the siblings stay
C21_Witness ==
  \E i \in 1..Len(pout) :
     /\ FragmentOf(Before(i), "b1") = RichFragment
     /\ "b1" \in WrittenBidders(pout[i].store)
     /\ MergedFor(i, "b1") = <<>>
     /\ CustomFor(i, "b1") = <<"c2">>
     /\ pout[i].bidderOrtb2["b1"].user.ext.data.p_standard = <<"old">>
     /\ pout[i].bidderOrtb2["b1"].site.ext.permutive.p_standard = <<"old">>
     /\ pout[i].bidderOrtb2["b1"].user.ext.data.permutive = <<"c2">>
     /\ pout[i].bidderOrtb2["b1"].user.ext.data.interests = <<"i">>
     /\ pout[i].bidderOrtb2["b1"].site.ext.permutive.other = <<"k">>

\* user.data of bidder before and after pass i
UserDataBefore(i, bidder) ==
  deepAccessOr(FragmentOf(Before(i), bidder), <<"user", "data">>, <<>>)

UserDataAfter(i, bidder) ==
  deepAccessOr(pout[i].bidderOrtb2[bidder], <<"user", "data">>, <<>>)

\* The entries of other names a pass finds
OtherEntries(i, bidder) ==
  SelectSeq(UserDataBefore(i, bidder),
            LAMBDA el : el.name # ProviderName /\ el.name # PERMUTIVE_CUSTOM_COHORTS_KEYWORD)

\* The transformations of the configuration that are applied: those with a
\* known id
Applied == SelectSeq(TransformationsOf(ConfigOf(pin.custom).params), LAMBDA c : c.id \in TransformationIds)

\* C22: after every pass, the first or a later one over the fragments the
\* earlier pass left, user.data of every bidder the pass writes is: the
\* entries of other names the pass found, in their order; then one entry
\* named permutive.com without ext; then one permutive.com entry with
\* ext.segtax for each applied transformation; then one entry named permutive;
\* then one permutive.com entry with ext.segtax for each topic version of the
\* bundle of this pass; and nothing else.
C22_UserDataShape ==
  \A i \in 1..Len(pout) :
     \A bidder \in WrittenBidders(pout[i].store) :
        LET after == UserDataAfter(i, bidder)
            others == OtherEntries(i, bidder)
            o == Len(others)
            k == Len(Applied)
            n == Cardinality(DOMAIN BundleOf(i).topics)
        IN /\ Len(after) = o + 2 + k + n
           /\ SubSeq(after, 1, o) = others
           /\ after[o + 1].name = ProviderName
           /\ "ext" \notin DOMAIN after[o + 1]
           /\ \A j \in 1..k :
                 /\ after[o + 1 + j].name = ProviderName
                 /\ after[o + 1 + j].ext.segtax = Applied[j].config.segtax
           /\ after[o + k + 2].name = PERMUTIVE_CUSTOM_COHORTS_KEYWORD
           /\ \A j \in 1..n :
                 /\ after[o + k + 2 + j].name = ProviderName
                 /\ \E key \in DOMAIN BundleOf(i).topics :
                       after[o + k + 2 + j].ext.segtax = SegtaxOf(key)
           /\ Cardinality({j \in 1..Len(after) :
                             after[j].name = ProviderName /\ "ext" \notin DOMAIN after[j]}) = 1
           /\ Cardinality({j \in 1..Len(after) :
                             after[j].name = PERMUTIVE_CUSTOM_COHORTS_KEYWORD}) = 1
           /\ Cardinality({j \in 1..Len(after) :
                             after[j].name = ProviderName /\ "ext" \in DOMAIN after[j]}) = k + n

\* A second pass over the rich fragment, one transformation applied, the
\* topic version of the first pass replaced by that of the second
C22_Witness ==
  /\ Len(pout) = 2
  /\ pin.bidderOrtb2 = [b1 |-> RichFragment, zz |-> RichFragment]
  /\ Len(Applied) = 1
  /\ DOMAIN BundleOf(1).topics = {"600"}
  /\ DOMAIN BundleOf(2).topics = {"601"}
  /\ Len(UserDataBefore(2, "b1")) = 6
  /\ Len(UserDataAfter(2, "b1")) = 6
  /\ UserDataAfter(2, "b1")[1].name = "other.com"
  /\ UserDataAfter(2, "b1")[2].name = "third.com"
  /\ UserDataAfter(2, "b1")[6].ext.segtax = 601

\* ------------------------------------------------------------------------
\* The ac and customCohorts fields of the bundle
\* ------------------------------------------------------------------------
\* The items of the array the store holds under key; none when the key is
\* missing, unparsable or holds another value
ItemsAt(key) == IF store[key].t = "array" THEN store[key].v ELSE <<>>

\* The canonical decimal form of the numeric items of xs that reach the
\* threshold
AtLeastThreshold(xs) ==
  LET kept == SelectSeq(xs, LAMBDA x : IsNumeric(x) /\ NumberOf(x) >= 1000000)
  IN [j \in 1..Len(kept) |-> NumberToString(NumberOf(kept[j]))]

\* C23: the ac field of the bundle is the first maxSegs elements of the
\* items of _pcrprs, all of them, followed by the items of _psegs whose
\* numeric value is at least 1000000 in decimal form; the DCR items come
\* before every standard item.
C23_AcField ==
  Len(pout) >= 1 =>
    LET ac == pout[1].bundle.ac
        dcr == ItemsAt("_pcrprs")
        full == dcr \o AtLeastThreshold(ItemsAt("_psegs"))
        maxSegs == ConfigOf(pin).params.maxSegs
    IN /\ Len(ac) = Min(Len(full), maxSegs)
       /\ \A j \in 1..Len(ac) : ac[j] = full[j]
       /\ \A j \in 1..Min(Len(dcr), maxSegs) : ac[j] = dcr[j]

\* Both sources hold items, one standard item is written in exponent form,
\* one is not a number and one is below the threshold
C23_Witness ==
  /\ Len(pout) >= 1
  /\ ItemsAt("_pcrprs") = <<"1000001", "d1">>
  /\ ItemsAt("_psegs") = <<"1e6", "x", "999999">>
  /\ ConfigOf(pin).params.maxSegs = 3
  /\ pout[1].bundle.ac = <<"1000001", "d1", "1000000">>

\* The five sources of the custom cohorts, in the order they are read
CustomSources == <<"_pprebid", "_papns", "_prubicons", "_pindexs", "_pdfps">>

\* C24: the customCohorts field of the bundle is the first maxSegs elements
\* of the first occurrences of the items of the five sources taken in source
\* order; it holds no item twice; a source that cannot be read contributes
\* nothing and the items of the other sources are all counted.
C24_CustomCohortsField ==
  Len(pout) >= 1 =>
    LET cc == pout[1].bundle.customCohorts
        all == ItemsAt(CustomSources[1]) \o ItemsAt(CustomSources[2])
               \o ItemsAt(CustomSources[3]) \o ItemsAt(CustomSources[4])
               \o ItemsAt(CustomSources[5])
    IN /\ cc = Prefix(FirstOccurrences(all), ConfigOf(pin).params.maxSegs)
       /\ NoDuplicates(cc)

\* A duplicate within the first maxSegs items of the concatenation and a
\* source that fails: the cap is filled with three distinct items
C24_Witness ==
  /\ Len(pout) >= 1
  /\ ItemsAt("_pprebid") = <<"c1", "c2">>
  /\ ItemsAt("_papns") = <<"c2", "c3">>
  /\ store["_prubicons"] = Scalar
  /\ ItemsAt("_pindexs") = <<"c3", "c4">>
  /\ ConfigOf(pin).params.maxSegs = 3
  /\ pout[1].bundle.customCohorts = <<"c1", "c2", "c3">>

\* ------------------------------------------------------------------------
\* The cached platform configuration
\* ------------------------------------------------------------------------
\* C25: the cached platform configuration is write-once: once it holds a
\* value read from the store it is never changed again, by a further init
\* call or by any other operation.
C25_WriteOnce ==
  [][cachedPermutiveModuleConfig # EmptyObj
       => cachedPermutiveModuleConfig' = cachedPermutiveModuleConfig]_vars

\* Only init assigns the cache: getBidRequestData, the ready listeners and
\* the SDK leave it as it is
C25_OnlyInitAssigns ==
  [][cachedPermutiveModuleConfig' # cachedPermutiveModuleConfig => init]_vars

\* The values the cache can hold
CachedValues == {liftIntoParams(v) : v \in StoredConfigs}

\* The four parameters the defaults give every resolved configuration
DefaultParams == {"maxSegs", "acBidders", "ccBidders", "overwrites"}

\* C26: every getModuleConfig call returns a configuration; its platform
\* layer is the live SDK config whenever getPermutiveRtdConfig() returns, its
\* params if it is a plain object and nothing otherwise, and then no cached
\* value would change the result; it is the cached value only when the access
\* throws; the cached value is {} unless the store key holds a plain object.
C26_PlatformLayer ==
  [][pout' # pout =>
       LET r == pout'[1]
       IN /\ "waitForIt" \in DOMAIN r.result
          /\ DefaultParams \subseteq DOMAIN r.result.params
          /\ liveConfig.t = "throws" => r.platform = cachedPermutiveModuleConfig
          /\ liveConfig.t = "object" => r.platform = [params |-> liveConfig.fields]
          /\ liveConfig.t \notin {"throws", "object"} => r.platform = EmptyObj
          /\ liveConfig.t # "throws" =>
               \A cached \in CachedValues :
                  getModuleConfig(liveConfig, cached, r.custom) = r.result
          /\ store[PERMUTIVE_SUBMODULE_CONFIG_KEY].t # "object"
               => cachedPermutiveModuleConfig = EmptyObj]_vars

\* The cache holds params, the live access returns a value that is not a
\* plain object: the platform layer is empty and the default stands
C26_Witness ==
  /\ Len(pout) = 1
  /\ cachedPermutiveModuleConfig = [params |-> [maxSegs |-> 2]]
  /\ liveConfig = Scalar
  /\ pout[1].platform = EmptyObj
  /\ pout[1].result.params.maxSegs = DefaultMaxSegs

\* The live access throws and the cache is used
C26_CachedUsed ==
  /\ Len(pout) = 1
  /\ liveConfig = Throws
  /\ pout[1].platform = [params |-> [maxSegs |-> 2]]
  /\ pout[1].result.params.maxSegs = 2

\* ------------------------------------------------------------------------
\* The ready listeners
\* ------------------------------------------------------------------------
\* The orchestrator with the requests fixed: the calls with an odd number
\* carry a fragment for b1, the others none
InitReady ==
  /\ Init
  /\ reqs = [c \in Calls |-> IF c % 2 = 1
                             THEN [b1 |-> [user |-> [keywords |-> <<"foo=bar">>]]]
                             ELSE EmptyObj]

SpecReady == InitReady /\ [][Next]_vars

FairReady == SpecReady /\ \A c \in Calls : WF_listeners(ListenerFires(c))

\* The listener of call c runs in this step
Fires(c) == c \in listeners /\ c \notin listeners'

\* C27: when the ready listener of a deferred call fires, the fragments of
\* the call become those of a pass run with the configuration resolved at
\* that moment from the caller config of the call, over the store as it is
\* at that moment; the callback is invoked after that pass and the latch is
\* true when the step ends.
C27_SecondPassFresh ==
  [][\A c \in Calls :
       Fires(c) =>
         /\ reqs'[c] = readAndSetCohorts(reqs[c],
                                         getModuleConfig(liveConfig, cachedPermutiveModuleConfig,
                                                         calls[c].custom),
                                         store)
         /\ calls'[c].custom = calls[c].custom
         /\ calls'[c].log = calls[c].log \o <<"pass2", "callback">>
         /\ permutiveSDKInRealTime']_vars

\* The first pass found no platform configuration and an empty store; the
\* SDK then published its configuration and wrote its cohorts; the second
\* pass wrote b1 as an AC bidder with the new cohort, capped by the
\* published maxSegs
C27_Witness ==
  \E c \in Calls :
     /\ calls[c].log = <<"pass1", "register", "pass2", "callback">>
     /\ calls[c].custom = [waitForIt |-> TRUE]
     /\ liveConfig = PlatformConfig
     /\ WrittenMerged(FragmentOf(calls[c].first, "b1")) = <<>>
     /\ WrittenMerged(FragmentOf(reqs[c], "b1")) = <<"1000002">>
     /\ permutiveSDKInRealTime

\* C28: a deferred call registers one listener and nothing removes a
\* listener but its own run: a call is among the listeners exactly while it
\* has registered and not run its second pass, several calls can be there
\* together, a step in which the listener of a call fires runs the second
\* pass on the request of that call and invokes its callback, leaving the
\* other calls, their requests and their listeners as they are, and once the
\* SDK is realtime every registered listener fires, so that the callback of
\* its call has been invoked exactly once, whatever calls are made in
\* between.
C28_OwnListener ==
  /\ [](\A c \in Calls :
          /\ Count(calls[c].log, "register") <= 1
          /\ Count(calls[c].log, "callback") <= 1
          /\ c \in listeners <=> calls[c].log = <<"pass1", "register">>)
  /\ [][\A c \in Calls :
          /\ (c \in listeners /\ c \notin listeners') =>
               /\ permutive.realtime
               /\ calls'[c].log = <<"pass1", "register", "pass2", "callback">>
               /\ listeners' = listeners \ {c}
               /\ \A d \in Calls \ {c} : calls'[d] = calls[d] /\ reqs'[d] = reqs[d]
          /\ (c \in listeners /\ c \in listeners') =>
               /\ calls'[c] = calls[c]
               /\ reqs'[c] = reqs[c]]_vars
  /\ \A c \in Calls :
        (c \in listeners /\ permutive.realtime)
          ~> (c \notin listeners /\ Count(calls[c].log, "callback") = 1)

\* Two calls deferred together, both listeners fired, each on its own
\* request: the first call's fragments were written, the second has none
C28_Witness ==
  /\ \A c \in 1..2 : calls[c].log = <<"pass1", "register", "pass2", "callback">>
  /\ listeners = {}
  /\ "b1" \in DOMAIN reqs[1]
  /\ "user" \in DOMAIN reqs[1]["b1"] /\ "data" \in DOMAIN reqs[1]["b1"].user
  /\ "b1" \notin DOMAIN reqs[2]

\* Both listeners registered and pending at once
C28_BothPending == listeners = {1, 2} /\ permutive.realtime

\* A call made after the first one deferred completes at once while the
\* first listener is pending, and the listener still fires afterwards
C28_Interleaved ==
  /\ calls[1].log = <<"pass1", "register", "pass2", "callback">>
  /\ calls[2].log = <<"pass1", "callback">>
  /\ ~calls[2].seen.latch

\* ------------------------------------------------------------------------
\* Repeated ids and the growth of the keywords
\* ------------------------------------------------------------------------
\* C29: in every fragment a pass writes, whatever the roles of the bidder,
\* no id occurs twice in the segment of the permutive.com entry, among the
\* p_standard= tokens of user.keywords, under user.ext.data.p_standard or
\* under site.ext.permutive.p_standard, also when the ac list of the bundle
\* holds an id twice.
C29_NoRepeatedId ==
  Len(pout) >= 2 =>
    \A bidder \in Range(RoutedCandidates) :
       LET fragment == pout[2].bidderOrtb2[bidder]
       IN /\ NoDuplicates(WrittenMerged(fragment))
          /\ NoDuplicates(TokensWithKey(KeywordsIn(fragment), PERMUTIVE_STANDARD_KEYWORD))
          /\ NoDuplicates(deepAccessOr([ortb2 |-> fragment], UserExtStandard, <<>>))
          /\ NoDuplicates(deepAccessOr([ortb2 |-> fragment], SiteExtStandard, <<>>))

\* The ac list holds 1000001 from both sources; b1, an AC bidder and an SSP,
\* receives it once, followed by the other ids
C29_Witness ==
  /\ Len(pout) >= 2
  /\ pout[1].bundle.ac = <<"1000001", "d1", "1000001">>
  /\ pout[1].bundle.ssp.ssps = <<"b2", "b1">>
  /\ Includes(ConfigOf(pin).params.acBidders, "b1")
  /\ WrittenMerged(pout[2].bidderOrtb2["b1"]) = <<"1000001", "d1", "s1">>
  /\ pout[2].bidderOrtb2["b1"].user.ext.data.p_standard = <<"1000001", "d1", "s1">>
  /\ pout[2].bidderOrtb2["b1"].site.ext.permutive.p_standard = <<"1000001", "d1", "s1">>
  /\ Len(TokensWithKey(KeywordsIn(pout[2].bidderOrtb2["b1"]), PERMUTIVE_STANDARD_KEYWORD)) = 3

\* The tokens of user.keywords of bidder before and after pass i
TokensBefore(i, bidder) == Tokens(KeywordsIn(FragmentOf(Before(i), bidder)))

TokensAfter(i, bidder) == Tokens(KeywordsIn(FragmentOf(pout[i].bidderOrtb2, bidder)))

\* C30: no pass removes a token of user.keywords: for every bidder, the
\* tokens the string held before a pass are all there after it, those
\* written for the cohorts of an earlier pass included.
C30_TokensOnlyGrow ==
  \A i \in 1..Len(pout) :
     \A bidder \in (DOMAIN Before(i)) \cup WrittenBidders(pout[i].store) :
        TokensBefore(i, bidder) \subseteq TokensAfter(i, bidder)

\* The first pass wrote p_standard=1 and p_standard=2 for b1; the bundle of
\* the second pass holds neither cohort; both tokens are still there, and
\* with the new one the p_standard= tokens are more than maxSegs
C30_Witness ==
  /\ Len(pout) = 2
  /\ ConfigOf(pin.custom).params.maxSegs = 2
  /\ pin.bidderOrtb2 = EmptyObj
  /\ BundleOf(2).ac = <<"1000002">>
  /\ BundleOf(2).ssp.cohorts = <<>>
  /\ TokensWithKey(KeywordsIn(pout[2].bidderOrtb2["b1"]), PERMUTIVE_STANDARD_KEYWORD)
       = <<<<PERMUTIVE_STANDARD_KEYWORD, "=", "1">>,
           <<PERMUTIVE_STANDARD_KEYWORD, "=", "2">>,
           <<PERMUTIVE_STANDARD_KEYWORD, "=", "1000002">>>>
====
